---- MODULE Spec2Model ----
(***************************************************************************)
(* Football tournament REST API: the relational store (schema.sql), the    *)
(* four repositories, the use cases and the status mapping of the HTTP     *)
(* handlers.  Every SQL statement is one atomic step; a use case that      *)
(* issues several statements (two existence lookups, then the write) is    *)
(* split into one step per statement, so that other requests interleave    *)
(* between its statements exactly as they can on the request-per-worker    *)
(* server.  The HTTP specification serves one request at a time through    *)
(* the router, with the storage reachable or not for that request; the     *)
(* other specifications call the use cases with a reachable storage.       *)
(***************************************************************************)
EXTENDS Integers, Sequences, FiniteSets, Bags, TLC

\* ------------------------------------------------------------------ bounds
\* the uuid.New() calls of one behaviour
MaxUUID == 3

\* the requests one client sends on one connection
MaxExchanges == 5

\* ------------------------------------------------------- input domains
\* instants are counted in nanoseconds, as time.Time holds them
ZeroTime == 0
Microsecond == 1000
Names == {"a", "b"}
Dates == {Microsecond}
MatchNumbers == {7}
Goals == {0}

Nil == <<>>

\* no HTTP request is under observation
NoRequest == [resource |-> "none", method |-> "none", segments |-> <<>>,
              body |-> [json |-> FALSE], storage |-> "up"]

VARIABLES players, teams, tournaments, matches, team_players,
          tournament_teams, nextUUID, inflight, last, request

store == <<players, teams, tournaments, matches, team_players, tournament_teams>>
vars == <<players, teams, tournaments, matches, team_players,
          tournament_teams, nextUUID, inflight, last, request>>

\* ----------------------------------------------------------- helpers
Put(f, k, v) == [x \in DOMAIN f \cup {k} |-> IF x = k THEN v ELSE f[x]]
Drop(f, S) == [x \in DOMAIN f \ S |-> f[x]]
BagAdd(B, e) == B (+) SetToBag({e})
BagDrop(B, S) == [x \in DOMAIN B \ S |-> B[x]]

\* the requests that are between two of their statements.  One request that
\* issues several statements is in flight at a time; the requests that issue
\* a single statement interleave freely with its statements.
Started(req) == inflight' = BagAdd(inflight, req)
Moved(req, pc) == inflight' = BagAdd(inflight (-) SetToBag({req}), [req EXCEPT !.pc = pc])
Ended(req) == inflight' = inflight (-) SetToBag({req})
CanStart == inflight = EmptyBag
InflightAt(op, pc) == {r \in BagToSet(inflight) : r.op = op /\ r.pc = pc}

\* the results a SELECT ... ORDER BY can return: every row of rows once, no
\* row after one of a greater key; rows of equal keys come in any order
Orderings(rows, key) ==
    {l \in [1..Cardinality(rows) -> rows] :
        /\ \A i, j \in DOMAIN l : i # j => l[i] # l[j]
        /\ \A i, j \in DOMAIN l : i < j => key[l[i]] <= key[l[j]]}

\* the place of a name in the collation of the name columns
NameRank(name) == IF name = "a" THEN 1 ELSE 2

\* fmt.Errorf("label: %w", err): the label is prepended to the cause
Wrap(label, err) == <<label>> \o err

\* the response of the request that completed last: the use case it called,
\* the error the use case returned, the HTTP status and the entity in a
\* success body; the request under observation is not touched by a response
Respond(op, err, status, out) ==
    /\ last' = [op |-> op, err |-> err, status |-> status, out |-> out]
    /\ request' = request

\* the identifiers handed out so far; a client can only name one of these
UUIDs == 1..nextUUID

\* time.Now().UTC(): a clock that advances with every constructor call and
\* is read to the nanosecond
Now == (nextUUID + 1) * Microsecond + 1

\* a time.Time written to a TIMESTAMP WITH TIME ZONE column and read back:
\* the column keeps microseconds, the value is rounded to the nearest one
Timestamptz(t) == ((t + Microsecond \div 2) \div Microsecond) * Microsecond

\* --------------------------------------------------- domain constructors
NewPlayer(id, name, dateBirth, now) ==
    [id |-> id, name |-> name, date_birth |-> dateBirth, created_at |-> now]

NewTeam(id, name, now) == [id |-> id, name |-> name, created_at |-> now]

NewTournament(id, name, now) == [id |-> id, name |-> name, created_at |-> now]

NewMatch(id, matchNumber, date, team1ID, team2ID, goals1, goals2, now) ==
    [id |-> id, match_number |-> matchNumber, date |-> date,
     team1_id |-> team1ID, team2_id |-> team2ID,
     goal_scored_team1 |-> goals1, goal_scored_team2 |-> goals2,
     created_at |-> now]

\* ------------------------------------------------------ schema constraints
\* the teams table created without the UNIQUE on name
teams_name_key_Off(id, name) == TRUE

\* teams.name UNIQUE
teams_name_key(id, name) ==
    \A t \in DOMAIN teams \ {id} : teams[t].name # name

\* matches: CONSTRAINT different_teams CHECK (team1_id != team2_id)
different_teams(team1ID, team2ID) == team1ID # team2ID

\* the matches table created without its REFERENCES teams(id)
matches_team_fkey_Off(teamID) == TRUE

\* matches.team1_id / team2_id REFERENCES teams(id)
matches_team_fkey(teamID) == teamID \in DOMAIN teams

\* the team_players table created without its PRIMARY KEY
team_players_pkey_Off(teamID, playerID) == TRUE

\* team_players PRIMARY KEY (team_id, player_id)
team_players_pkey(teamID, playerID) == ~BagIn(<<teamID, playerID>>, team_players)

\* the team_players table created without its REFERENCES
team_players_fkey_Off(teamID, playerID) == TRUE

\* team_players REFERENCES teams(id), players(id)
team_players_fkey(teamID, playerID) ==
    teamID \in DOMAIN teams /\ playerID \in DOMAIN players

\* tournament_teams PRIMARY KEY (tournament_id, team_id)
tournament_teams_pkey(tournamentID, teamID) ==
    ~BagIn(<<tournamentID, teamID>>, tournament_teams)

\* tournament_teams REFERENCES tournaments(id), teams(id)
tournament_teams_fkey(tournamentID, teamID) ==
    tournamentID \in DOMAIN tournaments /\ teamID \in DOMAIN teams

\* the constraint a row of matches violates, checked as the storage does:
\* the CHECK when the row is formed, the foreign keys after it
MatchRowErr(team1ID, team2ID) ==
    IF ~different_teams(team1ID, team2ID) THEN <<"check_violation">>
    ELSE IF ~matches_team_fkey(team1ID) \/ ~matches_team_fkey(team2ID)
         THEN <<"foreign_key_violation">>
    ELSE Nil

\* ------------------------------------------------------- PlayerRepository
PlayerRepoGetByID(id) ==
    IF id \in DOMAIN players THEN Nil ELSE <<"player not found">>

\* the row of a stored id, scanned into a domain.Player
PlayerRepoGetByIDRow(id) ==
    [id |-> id, name |-> players[id].name, date_birth |-> players[id].date_birth,
     created_at |-> players[id].created_at]

\* SELECT ... FROM players ORDER BY created_at DESC
PlayerRepoGetAll ==
    LET key == [p \in DOMAIN players |-> -players[p].created_at] IN
    {[i \in DOMAIN l |-> PlayerRepoGetByIDRow(l[i])] :
        l \in Orderings(DOMAIN players, key)}

PlayerRepoCreateErr(player) == Nil

\* the INSERT with its last two arguments exchanged
PlayerRepoCreate_ArgsSwapped(player) ==
    players' = Put(players, player.id,
                   [name |-> player.name,
                    date_birth |-> Timestamptz(player.created_at),
                    created_at |-> Timestamptz(player.date_birth)])

PlayerRepoCreate(player) ==
    players' = IF PlayerRepoCreateErr(player) = Nil
               THEN Put(players, player.id,
                        [name |-> player.name,
                         date_birth |-> Timestamptz(player.date_birth),
                         created_at |-> Timestamptz(player.created_at)])
               ELSE players

\* rows == 0 -> "player not found"
PlayerRepoUpdateErr(player) ==
    IF player.id \in DOMAIN players THEN Nil ELSE <<"player not found">>

\* an UPDATE written as INSERT ... ON CONFLICT (id) DO UPDATE
PlayerRepoUpdate_Upsert(player) ==
    players' = Put(players, player.id,
                   [name |-> player.name,
                    date_birth |-> Timestamptz(player.date_birth),
                    created_at |-> IF player.id \in DOMAIN players
                                   THEN players[player.id].created_at
                                   ELSE Timestamptz(player.created_at)])

PlayerRepoUpdate(player) ==
    players' = IF PlayerRepoUpdateErr(player) = Nil
               THEN [players EXCEPT ![player.id].name = player.name,
                                    ![player.id].date_birth =
                                        Timestamptz(player.date_birth)]
               ELSE players

\* a Delete that does not look at RowsAffected
PlayerRepoDeleteErr_Silent(id) == Nil

PlayerRepoDeleteErr(id) ==
    IF id \in DOMAIN players THEN Nil ELSE <<"player not found">>

\* DELETE FROM players: the team_players rows of the player cascade
PlayerRepoDelete(id) ==
    /\ players' = Drop(players, {id})
    /\ team_players' = BagDrop(team_players,
                               {r \in DOMAIN team_players : r[2] = id})

\* --------------------------------------------------------- TeamRepository
\* the row of a stored id, scanned into a domain.Team
TeamRepoGetByIDRow(id) ==
    [id |-> id, name |-> teams[id].name, created_at |-> teams[id].created_at]

TeamRepoGetByID(id) ==
    IF id \in DOMAIN teams THEN Nil ELSE <<"team not found">>

\* SELECT ... FROM teams ORDER BY created_at DESC
TeamRepoGetAll ==
    LET newer(t) == {u \in DOMAIN teams : teams[u].created_at > teams[t].created_at}
    IN  [i \in 1..Cardinality(DOMAIN teams) |->
            LET t == CHOOSE u \in DOMAIN teams : Cardinality(newer(u)) = i - 1
            IN  [id |-> t, name |-> teams[t].name, created_at |-> teams[t].created_at]]

TeamRepoCreateErr(team) ==
    IF teams_name_key(team.id, team.name) THEN Nil ELSE <<"unique_violation">>

TeamRepoCreate(team) ==
    teams' = IF TeamRepoCreateErr(team) = Nil
             THEN Put(teams, team.id,
                      [name |-> team.name,
                       created_at |-> Timestamptz(team.created_at)])
             ELSE teams

\* zero rows match a missing id, and then no constraint is evaluated
TeamRepoUpdateErr(team) ==
    IF team.id \notin DOMAIN teams THEN <<"team not found">>
    ELSE IF ~teams_name_key(team.id, team.name) THEN <<"unique_violation">>
    ELSE Nil

TeamRepoUpdate(team) ==
    teams' = IF TeamRepoUpdateErr(team) = Nil
             THEN [teams EXCEPT ![team.id].name = team.name]
             ELSE teams

TeamRepoDeleteErr(id) ==
    IF id \in DOMAIN teams THEN Nil ELSE <<"team not found">>

\* matches with ON DELETE CASCADE on team1_id alone
CascadeMatches_Team1Only(id) ==
    {m \in DOMAIN matches : matches[m].team1_id = id}

\* the rows removed by ON DELETE CASCADE when a team is deleted
CascadeMatches(id) ==
    {m \in DOMAIN matches : matches[m].team1_id = id \/ matches[m].team2_id = id}

\* team_players.team_id declared without ON DELETE CASCADE handling
CascadeTeamPlayers_None(id) == {}

CascadeTeamPlayers(id) == {r \in DOMAIN team_players : r[1] = id}

CascadeTournamentTeams(id) == {r \in DOMAIN tournament_teams : r[2] = id}

TeamRepoDelete(id) ==
    /\ teams' = Drop(teams, {id})
    /\ matches' = Drop(matches, CascadeMatches(id))
    /\ team_players' = BagDrop(team_players, CascadeTeamPlayers(id))
    /\ tournament_teams' = BagDrop(tournament_teams, CascadeTournamentTeams(id))

TeamRepoAddPlayerErr(teamID, playerID) ==
    IF ~team_players_pkey(teamID, playerID) THEN <<"unique_violation">>
    ELSE IF ~team_players_fkey(teamID, playerID) THEN <<"foreign_key_violation">>
    ELSE Nil

\* the INSERT with its two arguments in the order of the other column
TeamRepoAddPlayer_Reversed(teamID, playerID) ==
    team_players' = IF TeamRepoAddPlayerErr(teamID, playerID) = Nil
                    THEN BagAdd(team_players, <<playerID, teamID>>)
                    ELSE team_players

TeamRepoAddPlayer(teamID, playerID) ==
    team_players' = IF TeamRepoAddPlayerErr(teamID, playerID) = Nil
                    THEN BagAdd(team_players, <<teamID, playerID>>)
                    ELSE team_players

\* the DELETE with a rows-affected check
TeamRepoRemovePlayerErr_RowsAffected(teamID, playerID) ==
    IF BagIn(<<teamID, playerID>>, team_players) THEN Nil
    ELSE <<"membership not found">>

\* no rows-affected check: deleting no row is a success
TeamRepoRemovePlayerErr(teamID, playerID) == Nil

TeamRepoRemovePlayer(teamID, playerID) ==
    team_players' = BagDrop(team_players, {<<teamID, playerID>>})

\* the players of the inner join players x team_players for one team
\* players INNER JOIN team_players WHERE tp.team_id = $1 ORDER BY p.name:
\* one row of the result for each membership row of the team
TeamRepoGetTeamPlayers_Unordered(teamID) ==
    LET joined == {r \in (DOMAIN players) \X (1..MaxUUID) :
                      r[2] <= CopiesIn(<<teamID, r[1]>>, team_players)}
        key == [r \in joined |-> 0] IN
    {[i \in DOMAIN l |-> PlayerRepoGetByIDRow(l[i][1])] :
        l \in Orderings(joined, key)}

TeamRepoGetTeamPlayers(teamID) ==
    LET joined == {r \in (DOMAIN players) \X (1..MaxUUID) :
                      r[2] <= CopiesIn(<<teamID, r[1]>>, team_players)}
        key == [r \in joined |-> NameRank(players[r[1]].name)] IN
    {[i \in DOMAIN l |-> PlayerRepoGetByIDRow(l[i][1])] :
        l \in Orderings(joined, key)}

\* --------------------------------------------------- TournamentRepository
TournamentRepoGetByID(id) ==
    IF id \in DOMAIN tournaments THEN Nil ELSE <<"tournament not found">>

\* the row of a stored id, scanned into a domain.Tournament
TournamentRepoGetByIDRow(id) ==
    [id |-> id, name |-> tournaments[id].name,
     created_at |-> tournaments[id].created_at]

\* SELECT ... FROM tournaments ORDER BY created_at DESC
TournamentRepoGetAll ==
    LET key == [t \in DOMAIN tournaments |-> -tournaments[t].created_at] IN
    {[i \in DOMAIN l |-> TournamentRepoGetByIDRow(l[i])] :
        l \in Orderings(DOMAIN tournaments, key)}

TournamentRepoCreateErr(tournament) == Nil

TournamentRepoCreate(tournament) ==
    tournaments' = IF TournamentRepoCreateErr(tournament) = Nil
                   THEN Put(tournaments, tournament.id,
                            [name |-> tournament.name,
                             created_at |-> Timestamptz(tournament.created_at)])
                   ELSE tournaments

TournamentRepoUpdateErr(tournament) ==
    IF tournament.id \in DOMAIN tournaments THEN Nil
    ELSE <<"tournament not found">>

TournamentRepoUpdate(tournament) ==
    tournaments' = IF TournamentRepoUpdateErr(tournament) = Nil
                   THEN [tournaments EXCEPT ![tournament.id].name = tournament.name]
                   ELSE tournaments

TournamentRepoDeleteErr(id) ==
    IF id \in DOMAIN tournaments THEN Nil ELSE <<"tournament not found">>

\* DELETE FROM tournaments: the tournament_teams rows of the tournament cascade
TournamentRepoDelete(id) ==
    /\ tournaments' = Drop(tournaments, {id})
    /\ tournament_teams' = BagDrop(tournament_teams,
                               {r \in DOMAIN tournament_teams : r[1] = id})

TournamentRepoAddTeamErr(tournamentID, teamID) ==
    IF ~tournament_teams_pkey(tournamentID, teamID) THEN <<"unique_violation">>
    ELSE IF ~tournament_teams_fkey(tournamentID, teamID)
         THEN <<"foreign_key_violation">>
    ELSE Nil

TournamentRepoAddTeam(tournamentID, teamID) ==
    tournament_teams' = IF TournamentRepoAddTeamErr(tournamentID, teamID) = Nil
                        THEN BagAdd(tournament_teams, <<tournamentID, teamID>>)
                        ELSE tournament_teams

TournamentRepoRemoveTeamErr(tournamentID, teamID) == Nil

TournamentRepoRemoveTeam(tournamentID, teamID) ==
    tournament_teams' = BagDrop(tournament_teams, {<<tournamentID, teamID>>})

\* teams INNER JOIN tournament_teams WHERE tt.tournament_id = $1
\* ORDER BY t.name
TournamentRepoGetTournamentTeams(tournamentID) ==
    LET joined == {r \in (DOMAIN teams) \X (1..MaxUUID) :
                      r[2] <= CopiesIn(<<tournamentID, r[1]>>, tournament_teams)}
        key == [r \in joined |-> NameRank(teams[r[1]].name)] IN
    {[i \in DOMAIN l |-> TeamRepoGetByIDRow(l[i][1])] :
        l \in Orderings(joined, key)}

\* -------------------------------------------------------- MatchRepository
MatchRow(match) ==
    [match_number |-> match.match_number, date |-> Timestamptz(match.date),
     team1_id |-> match.team1_id, team2_id |-> match.team2_id,
     goal_scored_team1 |-> match.goal_scored_team1,
     goal_scored_team2 |-> match.goal_scored_team2,
     created_at |-> Timestamptz(match.created_at)]

MatchRepoGetByID(id) ==
    IF id \in DOMAIN matches THEN Nil ELSE <<"match not found">>

\* the row of a stored id, scanned into a domain.Match
MatchRepoGetByIDRow(id) ==
    [id |-> id, match_number |-> matches[id].match_number,
     date |-> matches[id].date,
     team1_id |-> matches[id].team1_id, team2_id |-> matches[id].team2_id,
     goal_scored_team1 |-> matches[id].goal_scored_team1,
     goal_scored_team2 |-> matches[id].goal_scored_team2,
     created_at |-> matches[id].created_at]

\* SELECT ... FROM matches with the rows in order of creation
MatchRepoGetAll_ByCreation ==
    LET key == [m \in DOMAIN matches |-> -matches[m].created_at] IN
    {[i \in DOMAIN l |-> MatchRepoGetByIDRow(l[i])] :
        l \in Orderings(DOMAIN matches, key)}

\* SELECT ... FROM matches ORDER BY date DESC
MatchRepoGetAll ==
    LET key == [m \in DOMAIN matches |-> -matches[m].date] IN
    {[i \in DOMAIN l |-> MatchRepoGetByIDRow(l[i])] :
        l \in Orderings(DOMAIN matches, key)}

MatchRepoCreateErr(match) == MatchRowErr(match.team1_id, match.team2_id)

MatchRepoCreate(match) ==
    matches' = IF MatchRepoCreateErr(match) = Nil
               THEN Put(matches, match.id, MatchRow(match))
               ELSE matches

\* zero rows match a missing id, and then no constraint is evaluated;
\* created_at is not in the SET list
MatchRepoUpdateErr(match) ==
    IF match.id \notin DOMAIN matches THEN <<"match not found">>
    ELSE MatchRowErr(match.team1_id, match.team2_id)

\* the UPDATE with created_at in its SET list
MatchRepoUpdate_Restamp(match) ==
    matches' = IF MatchRepoUpdateErr(match) = Nil
               THEN [matches EXCEPT ![match.id] = MatchRow(match)]
               ELSE matches

MatchRepoUpdate(match) ==
    matches' = IF MatchRepoUpdateErr(match) = Nil
               THEN [matches EXCEPT ![match.id] =
                        [MatchRow(match) EXCEPT !.created_at = matches[match.id].created_at]]
               ELSE matches

MatchRepoDeleteErr(id) ==
    IF id \in DOMAIN matches THEN Nil ELSE <<"match not found">>

MatchRepoDelete(id) == matches' = Drop(matches, {id})

\* ------------------------------------------------------------ Init
Init ==
    /\ players = <<>>
    /\ teams = <<>>
    /\ tournaments = <<>>
    /\ matches = <<>>
    /\ team_players = EmptyBag
    /\ tournament_teams = EmptyBag
    /\ nextUUID = 0
    /\ inflight = EmptyBag
    /\ last = [op |-> "none", err |-> Nil, status |-> 0, out |-> Nil]
    /\ request = NoRequest

\* ------------------------------------------- PlayerHandler / PlayerUseCase
CreatePlayer(name, dateBirth) ==
    /\ nextUUID < MaxUUID
    /\ nextUUID' = nextUUID + 1
    /\ LET player == NewPlayer(nextUUID + 1, name, dateBirth, Now)
           err == PlayerRepoCreateErr(player) IN
          /\ PlayerRepoCreate(player)
          /\ Respond("CreatePlayer", err,
                     IF err = Nil THEN 201 ELSE 500,
                     IF err = Nil THEN player ELSE Nil)
    /\ UNCHANGED <<teams, tournaments, matches, team_players,
                   tournament_teams, inflight>>

UpdatePlayer(id, name, dateBirth) ==
    LET player == [id |-> id, name |-> name, date_birth |-> dateBirth,
                   created_at |-> ZeroTime]
        err == PlayerRepoUpdateErr(player) IN
       /\ PlayerRepoUpdate(player)
       /\ Respond("UpdatePlayer", err,
                  IF err = Nil THEN 200 ELSE 500,
                  IF err = Nil THEN player ELSE Nil)
       /\ UNCHANGED <<teams, tournaments, matches, team_players,
                      tournament_teams, nextUUID, inflight>>

DeletePlayer(id) ==
    LET err == PlayerRepoDeleteErr(id) IN
       /\ PlayerRepoDelete(id)
       /\ Respond("DeletePlayer", err,
                  IF err = Nil THEN 200 ELSE 500, Nil)
       /\ UNCHANGED <<teams, tournaments, matches, tournament_teams,
                      nextUUID, inflight>>

\* GET /api/players/{id}: every error of the use case is answered 404
GetPlayerByID_Status500(id) ==
    LET err == PlayerRepoGetByID(id) IN
       /\ Respond("GetPlayerByID", err,
                  IF err = Nil THEN 200 ELSE 500,
                  IF err = Nil THEN PlayerRepoGetByIDRow(id) ELSE Nil)
       /\ UNCHANGED <<store, nextUUID, inflight>>

GetPlayerByID(id) ==
    LET err == PlayerRepoGetByID(id) IN
       /\ Respond("GetPlayerByID", err,
                  IF err = Nil THEN 200 ELSE 404,
                  IF err = Nil THEN PlayerRepoGetByIDRow(id) ELSE Nil)
       /\ UNCHANGED <<store, nextUUID, inflight>>

\* GET /api/players
GetAllPlayers ==
    /\ \E l \in PlayerRepoGetAll : Respond("GetAllPlayers", Nil, 200, l)
    /\ UNCHANGED <<store, nextUUID, inflight>>

\* ----------------------------------------------- TeamHandler / TeamUseCase
CreateTeam(name) ==
    /\ nextUUID < MaxUUID
    /\ nextUUID' = nextUUID + 1
    /\ LET team == NewTeam(nextUUID + 1, name, Now)
           err == TeamRepoCreateErr(team) IN
          /\ TeamRepoCreate(team)
          /\ Respond("CreateTeam", err,
                     IF err = Nil THEN 201 ELSE 500,
                     IF err = Nil THEN team ELSE Nil)
    /\ UNCHANGED <<players, tournaments, matches, team_players,
                   tournament_teams, inflight>>

\* the handler answering with the row it reads back after the update
UpdateTeam_ReadBack(id, name) ==
    LET team == [id |-> id, name |-> name, created_at |-> ZeroTime]
        err == TeamRepoUpdateErr(team) IN
       /\ TeamRepoUpdate(team)
       /\ Respond("UpdateTeam", err,
                  IF err = Nil THEN 200 ELSE 500,
                  IF err = Nil THEN [team EXCEPT !.created_at = teams[id].created_at]
                  ELSE Nil)
       /\ UNCHANGED <<players, tournaments, matches, team_players,
                      tournament_teams, nextUUID, inflight>>

UpdateTeam(id, name) ==
    LET team == [id |-> id, name |-> name, created_at |-> ZeroTime]
        err == TeamRepoUpdateErr(team) IN
       /\ TeamRepoUpdate(team)
       /\ Respond("UpdateTeam", err,
                  IF err = Nil THEN 200 ELSE 500,
                  IF err = Nil THEN team ELSE Nil)
       /\ UNCHANGED <<players, tournaments, matches, team_players,
                      tournament_teams, nextUUID, inflight>>

DeleteTeam(id) ==
    LET err == TeamRepoDeleteErr(id) IN
       /\ TeamRepoDelete(id)
       /\ Respond("DeleteTeam", err,
                  IF err = Nil THEN 200 ELSE 500, Nil)
       /\ UNCHANGED <<players, tournaments, nextUUID, inflight>>

\* AddPlayerToTeam: lookup of the team, lookup of the player, insert
AddPlayerToTeam_Team(teamID, playerID) ==
    /\ CanStart
    /\ LET arg == [team_id |-> teamID, player_id |-> playerID]
           err == TeamRepoGetByID(teamID) IN
       IF err # Nil
       THEN /\ Respond("AddPlayerToTeam", Wrap("team not found", err), 400, Nil)
            /\ UNCHANGED inflight
       ELSE /\ Started([op |-> "AddPlayerToTeam", pc |-> "player", arg |-> arg])
            /\ UNCHANGED <<last, request>>
    /\ UNCHANGED <<store, nextUUID>>

\* the use case without its lookup of the player
AddPlayerToTeam_Player_NoLookup(req) ==
    /\ req \in InflightAt("AddPlayerToTeam", "player")
    /\ Moved(req, "write")
    /\ UNCHANGED <<store, nextUUID, last, request>>

AddPlayerToTeam_Player(req) ==
    /\ req \in InflightAt("AddPlayerToTeam", "player")
    /\ LET arg == req.arg
           err == PlayerRepoGetByID(arg.player_id) IN
       IF err # Nil
       THEN /\ Respond("AddPlayerToTeam", Wrap("player not found", err), 400, Nil)
            /\ Ended(req)
       ELSE /\ Moved(req, "write")
            /\ UNCHANGED <<last, request>>
    /\ UNCHANGED <<store, nextUUID>>

AddPlayerToTeam_Write(req) ==
    /\ req \in InflightAt("AddPlayerToTeam", "write")
    /\ LET arg == req.arg
           err == TeamRepoAddPlayerErr(arg.team_id, arg.player_id) IN
          /\ TeamRepoAddPlayer(arg.team_id, arg.player_id)
          /\ Respond("AddPlayerToTeam", err,
                     IF err = Nil THEN 200 ELSE 400, Nil)
    /\ Ended(req)
    /\ UNCHANGED <<players, teams, tournaments, matches, tournament_teams, nextUUID>>

RemovePlayerFromTeam(teamID, playerID) ==
    LET err == TeamRepoRemovePlayerErr(teamID, playerID) IN
       /\ TeamRepoRemovePlayer(teamID, playerID)
       /\ Respond("RemovePlayerFromTeam", err, IF err = Nil THEN 200 ELSE 400, Nil)
       /\ UNCHANGED <<players, teams, tournaments, matches, tournament_teams,
                      nextUUID, inflight>>

\* GET /api/teams/{id}: every error of the use case is answered 404
GetTeamByID(id) ==
    LET err == TeamRepoGetByID(id) IN
       /\ Respond("GetTeamByID", err,
                  IF err = Nil THEN 200 ELSE 404,
                  IF err = Nil THEN TeamRepoGetByIDRow(id) ELSE Nil)
       /\ UNCHANGED <<store, nextUUID, inflight>>

\* GET /api/teams
GetAllTeams ==
    /\ \E l \in {TeamRepoGetAll} : Respond("GetAllTeams", Nil, 200, l)
    /\ UNCHANGED <<store, nextUUID, inflight>>

\* the use case looking the team up before it lists the players
GetTeamPlayers_ParentChecked(teamID) ==
    /\ IF TeamRepoGetByID(teamID) # Nil
       THEN Respond("GetTeamPlayers", <<"team not found">>, 404, Nil)
       ELSE \E l \in TeamRepoGetTeamPlayers(teamID) :
               Respond("GetTeamPlayers", Nil, 200, l)
    /\ UNCHANGED <<store, nextUUID, inflight>>

\* GET /api/teams/{id}/players: the use case hands the call to the repository
GetTeamPlayers(teamID) ==
    /\ \E l \in TeamRepoGetTeamPlayers(teamID) :
          Respond("GetTeamPlayers", Nil, 200, l)
    /\ UNCHANGED <<store, nextUUID, inflight>>

\* ------------------------------------- TournamentHandler / TournamentUseCase
CreateTournament(name) ==
    /\ nextUUID < MaxUUID
    /\ nextUUID' = nextUUID + 1
    /\ LET tournament == NewTournament(nextUUID + 1, name, Now)
           err == TournamentRepoCreateErr(tournament) IN
          /\ TournamentRepoCreate(tournament)
          /\ Respond("CreateTournament", err, IF err = Nil THEN 201 ELSE 500,
                     IF err = Nil THEN tournament ELSE Nil)
    /\ UNCHANGED <<players, teams, matches, team_players,
                   tournament_teams, inflight>>

UpdateTournament(id, name) ==
    LET tournament == [id |-> id, name |-> name, created_at |-> ZeroTime]
        err == TournamentRepoUpdateErr(tournament) IN
       /\ TournamentRepoUpdate(tournament)
       /\ Respond("UpdateTournament", err, IF err = Nil THEN 200 ELSE 500,
                  IF err = Nil THEN tournament ELSE Nil)
       /\ UNCHANGED <<players, teams, matches, team_players,
                      tournament_teams, nextUUID, inflight>>

DeleteTournament(id) ==
    LET err == TournamentRepoDeleteErr(id) IN
       /\ TournamentRepoDelete(id)
       /\ Respond("DeleteTournament", err, IF err = Nil THEN 200 ELSE 500, Nil)
       /\ UNCHANGED <<players, teams, matches, team_players,
                      nextUUID, inflight>>

\* AddTeamToTournament: lookup of the tournament, lookup of the team, insert
AddTeamToTournament_Tournament(tournamentID, teamID) ==
    /\ CanStart
    /\ LET arg == [tournament_id |-> tournamentID, team_id |-> teamID]
           err == TournamentRepoGetByID(tournamentID) IN
       IF err # Nil
       THEN /\ Respond("AddTeamToTournament", Wrap("tournament not found", err), 400, Nil)
            /\ UNCHANGED inflight
       ELSE /\ Started([op |-> "AddTeamToTournament", pc |-> "team", arg |-> arg])
            /\ UNCHANGED <<last, request>>
    /\ UNCHANGED <<store, nextUUID>>

AddTeamToTournament_Team(req) ==
    /\ req \in InflightAt("AddTeamToTournament", "team")
    /\ LET arg == req.arg
           err == TeamRepoGetByID(arg.team_id) IN
       IF err # Nil
       THEN /\ Respond("AddTeamToTournament", Wrap("team not found", err), 400, Nil)
            /\ Ended(req)
       ELSE /\ Moved(req, "write")
            /\ UNCHANGED <<last, request>>
    /\ UNCHANGED <<store, nextUUID>>

AddTeamToTournament_Write(req) ==
    /\ req \in InflightAt("AddTeamToTournament", "write")
    /\ LET arg == req.arg
           err == TournamentRepoAddTeamErr(arg.tournament_id, arg.team_id) IN
          /\ TournamentRepoAddTeam(arg.tournament_id, arg.team_id)
          /\ Respond("AddTeamToTournament", err, IF err = Nil THEN 200 ELSE 400, Nil)
    /\ Ended(req)
    /\ UNCHANGED <<players, teams, tournaments, matches, team_players, nextUUID>>

RemoveTeamFromTournament(tournamentID, teamID) ==
    LET err == TournamentRepoRemoveTeamErr(tournamentID, teamID) IN
       /\ TournamentRepoRemoveTeam(tournamentID, teamID)
       /\ Respond("RemoveTeamFromTournament", err, IF err = Nil THEN 200 ELSE 400, Nil)
       /\ UNCHANGED <<players, teams, tournaments, matches, team_players,
                      nextUUID, inflight>>

\* GET /api/tournaments/{id}: every error of the use case is answered 404
GetTournamentByID(id) ==
    LET err == TournamentRepoGetByID(id) IN
       /\ Respond("GetTournamentByID", err,
                  IF err = Nil THEN 200 ELSE 404,
                  IF err = Nil THEN TournamentRepoGetByIDRow(id) ELSE Nil)
       /\ UNCHANGED <<store, nextUUID, inflight>>

\* GET /api/tournaments
GetAllTournaments ==
    /\ \E l \in TournamentRepoGetAll : Respond("GetAllTournaments", Nil, 200, l)
    /\ UNCHANGED <<store, nextUUID, inflight>>

\* GET /api/tournaments/{id}/teams
GetTournamentTeams(tournamentID) ==
    /\ \E l \in TournamentRepoGetTournamentTeams(tournamentID) :
          Respond("GetTournamentTeams", Nil, 200, l)
    /\ UNCHANGED <<store, nextUUID, inflight>>

\* --------------------------------------------- MatchHandler / MatchUseCase
\* the use case with its distinctness check ahead of the lookups
CreateMatch_Team1_SelfCheckFirst(matchNumber, date, team1ID, team2ID, goals1, goals2) ==
    /\ CanStart
    /\ nextUUID < MaxUUID
    /\ nextUUID' = nextUUID + 1
    /\ LET match == NewMatch(nextUUID + 1, matchNumber, date, team1ID, team2ID,
                             goals1, goals2, Now)
           err == TeamRepoGetByID(match.team1_id) IN
       IF team1ID = team2ID
       THEN /\ Respond("CreateMatch", <<"a team cannot play against itself">>, 400, Nil)
            /\ UNCHANGED inflight
       ELSE IF err # Nil
       THEN /\ Respond("CreateMatch", Wrap("team1 not found", err), 400, Nil)
            /\ UNCHANGED inflight
       ELSE /\ Started([op |-> "CreateMatch", pc |-> "team2", arg |-> match])
            /\ UNCHANGED <<last, request>>
    /\ UNCHANGED store

\* CreateMatch: lookup of team1, lookup of team2, distinctness check + insert
CreateMatch_Team1(matchNumber, date, team1ID, team2ID, goals1, goals2) ==
    /\ CanStart
    /\ nextUUID < MaxUUID
    /\ nextUUID' = nextUUID + 1
    /\ LET match == NewMatch(nextUUID + 1, matchNumber, date, team1ID, team2ID,
                             goals1, goals2, Now)
           err == TeamRepoGetByID(match.team1_id) IN
       IF err # Nil
       THEN /\ Respond("CreateMatch", Wrap("team1 not found", err), 400, Nil)
            /\ UNCHANGED inflight
       ELSE /\ Started([op |-> "CreateMatch", pc |-> "team2", arg |-> match])
            /\ UNCHANGED <<last, request>>
    /\ UNCHANGED store

\* the second lookup wrapping its error with the label of the first
CreateMatch_Team2_Label1(req) ==
    /\ req \in InflightAt("CreateMatch", "team2")
    /\ LET match == req.arg
           err == TeamRepoGetByID(match.team2_id) IN
       IF err # Nil
       THEN /\ Respond("CreateMatch", Wrap("team1 not found", err), 400, Nil)
            /\ Ended(req)
       ELSE /\ Moved(req, "write")
            /\ UNCHANGED <<last, request>>
    /\ UNCHANGED <<store, nextUUID>>

CreateMatch_Team2(req) ==
    /\ req \in InflightAt("CreateMatch", "team2")
    /\ LET match == req.arg
           err == TeamRepoGetByID(match.team2_id) IN
       IF err # Nil
       THEN /\ Respond("CreateMatch", Wrap("team2 not found", err), 400, Nil)
            /\ Ended(req)
       ELSE /\ Moved(req, "write")
            /\ UNCHANGED <<last, request>>
    /\ UNCHANGED <<store, nextUUID>>

\* the use case with the lookups and the insert in one transaction: a team
\* deleted since the lookups is a team not found
CreateMatch_Write_Transactional(req) ==
    /\ req \in InflightAt("CreateMatch", "write")
    /\ LET match == req.arg
           err == IF TeamRepoGetByID(match.team1_id) # Nil
                  THEN Wrap("team1 not found", TeamRepoGetByID(match.team1_id))
                  ELSE IF TeamRepoGetByID(match.team2_id) # Nil
                  THEN Wrap("team2 not found", TeamRepoGetByID(match.team2_id))
                  ELSE IF match.team1_id = match.team2_id
                  THEN <<"a team cannot play against itself">>
                  ELSE MatchRepoCreateErr(match) IN
          /\ matches' = IF err = Nil THEN Put(matches, match.id, MatchRow(match))
                        ELSE matches
          /\ Respond("CreateMatch", err, IF err = Nil THEN 201 ELSE 400,
                     IF err = Nil THEN match ELSE Nil)
    /\ Ended(req)
    /\ UNCHANGED <<players, teams, tournaments, team_players, tournament_teams,
                   nextUUID>>

\* the use case without its distinctness check: the row goes to the storage
CreateMatch_Write_NoSelfCheck(req) ==
    /\ req \in InflightAt("CreateMatch", "write")
    /\ LET match == req.arg
           err == MatchRepoCreateErr(match) IN
          /\ MatchRepoCreate(match)
          /\ Respond("CreateMatch", err, IF err = Nil THEN 201 ELSE 400,
                     IF err = Nil THEN match ELSE Nil)
    /\ Ended(req)
    /\ UNCHANGED <<players, teams, tournaments, team_players, tournament_teams,
                   nextUUID>>

CreateMatch_Write(req) ==
    /\ req \in InflightAt("CreateMatch", "write")
    /\ LET match == req.arg IN
       IF match.team1_id = match.team2_id
       THEN /\ Respond("CreateMatch", <<"a team cannot play against itself">>, 400, Nil)
            /\ UNCHANGED matches
       ELSE LET err == MatchRepoCreateErr(match) IN
            /\ MatchRepoCreate(match)
            /\ Respond("CreateMatch", err, IF err = Nil THEN 201 ELSE 400,
                       IF err = Nil THEN match ELSE Nil)
    /\ Ended(req)
    /\ UNCHANGED <<players, teams, tournaments, team_players, tournament_teams,
                   nextUUID>>

\* UpdateMatch: lookup of team1, lookup of team2, distinctness check + update
UpdateMatch_Team1(id, matchNumber, date, team1ID, team2ID, goals1, goals2) ==
    /\ CanStart
    /\ LET match == [id |-> id, match_number |-> matchNumber, date |-> date,
                     team1_id |-> team1ID, team2_id |-> team2ID,
                     goal_scored_team1 |-> goals1, goal_scored_team2 |-> goals2,
                     created_at |-> ZeroTime]
           err == TeamRepoGetByID(match.team1_id) IN
       IF err # Nil
       THEN /\ Respond("UpdateMatch", Wrap("team1 not found", err), 400, Nil)
            /\ UNCHANGED inflight
       ELSE /\ Started([op |-> "UpdateMatch", pc |-> "team2", arg |-> match])
            /\ UNCHANGED <<last, request>>
    /\ UNCHANGED <<store, nextUUID>>

UpdateMatch_Team2(req) ==
    /\ req \in InflightAt("UpdateMatch", "team2")
    /\ LET match == req.arg
           err == TeamRepoGetByID(match.team2_id) IN
       IF err # Nil
       THEN /\ Respond("UpdateMatch", Wrap("team2 not found", err), 400, Nil)
            /\ Ended(req)
       ELSE /\ Moved(req, "write")
            /\ UNCHANGED <<last, request>>
    /\ UNCHANGED <<store, nextUUID>>

\* an update that checks the row it finds, not the row it writes
UpdateMatch_Write_Unchecked(req) ==
    /\ req \in InflightAt("UpdateMatch", "write")
    /\ LET match == req.arg
           err == MatchRepoGetByID(match.id) IN
          /\ matches' = IF err = Nil
                         THEN [matches EXCEPT ![match.id] =
                                  [MatchRow(match) EXCEPT
                                      !.created_at = matches[match.id].created_at]]
                         ELSE matches
          /\ Respond("UpdateMatch", err, IF err = Nil THEN 200 ELSE 400,
                     IF err = Nil THEN match ELSE Nil)
    /\ Ended(req)
    /\ UNCHANGED <<players, teams, tournaments, team_players, tournament_teams,
                   nextUUID>>

UpdateMatch_Write(req) ==
    /\ req \in InflightAt("UpdateMatch", "write")
    /\ LET match == req.arg IN
       IF match.team1_id = match.team2_id
       THEN /\ Respond("UpdateMatch", <<"a team cannot play against itself">>, 400, Nil)
            /\ UNCHANGED matches
       ELSE LET err == MatchRepoUpdateErr(match) IN
            /\ MatchRepoUpdate(match)
            /\ Respond("UpdateMatch", err, IF err = Nil THEN 200 ELSE 400,
                       IF err = Nil THEN match ELSE Nil)
    /\ Ended(req)
    /\ UNCHANGED <<players, teams, tournaments, team_players, tournament_teams,
                   nextUUID>>

DeleteMatch(id) ==
    LET err == MatchRepoDeleteErr(id) IN
       /\ MatchRepoDelete(id)
       /\ Respond("DeleteMatch", err, IF err = Nil THEN 200 ELSE 500, Nil)
       /\ UNCHANGED <<players, teams, tournaments, team_players,
                      tournament_teams, nextUUID, inflight>>

\* GET /api/matches/{id}: every error of the use case is answered 404
GetMatchByID(id) ==
    LET err == MatchRepoGetByID(id) IN
       /\ Respond("GetMatchByID", err,
                  IF err = Nil THEN 200 ELSE 404,
                  IF err = Nil THEN MatchRepoGetByIDRow(id) ELSE Nil)
       /\ UNCHANGED <<store, nextUUID, inflight>>

\* GET /api/matches
GetAllMatches ==
    /\ \E l \in MatchRepoGetAll : Respond("GetAllMatches", Nil, 200, l)
    /\ UNCHANGED <<store, nextUUID, inflight>>

\* ------------------------------------------- net/http: requests and routing
\* the request under observation: the resource prefix the mux matched, the
\* method, the segments of the path after the prefix (strings.Split of the
\* trimmed path: the empty path is the one empty segment), the body, and
\* whether the storage answers while the request is served
Methods == {"GET", "POST", "PUT", "DELETE", "PATCH", "OPTIONS"}

\* uuid.Parse: the id a string spells, if it spells one
uuidParse(str) == IF str = "1" THEN {1} ELSE IF str = "2" THEN {2} ELSE {}

\* uuid.Parse of the whole remaining path: a path of several segments holds
\* a "/" and spells no id
PathID(segments) == IF Len(segments) = 1 THEN uuidParse(segments[1]) ELSE {}

\* time.Parse(time.RFC3339, dateStr)
parseDateTime(dateStr) ==
    IF dateStr = "1970-01-01T00:00:00.000001Z" THEN {Microsecond} ELSE {}

DateStrings == {"1970-01-01T00:00:00.000001Z", "yesterday"}

CrudPaths == {<<"">>, <<"1">>, <<"2">>, <<"zz">>}

SubPaths(sub) ==
    {<<"1", sub>>, <<"zz", sub>>, <<"1", sub, "2">>, <<"2", sub, "1">>,
     <<"zz", sub, "2">>, <<"1", sub, "zz">>, <<"1", sub, "2", "x">>,
     <<"1", "x", "2">>}

\* json.NewDecoder(r.Body).Decode(&input): json is FALSE for a body that does
\* not decode, and a decoded body carries the fields of the input struct
NoBody == [json |-> FALSE]

MatchInputs ==
    {[json |-> TRUE, match_number |-> 7, date |-> in[1], team1_id |-> in[2],
      team2_id |-> in[3], goal_scored_team1 |-> 0, goal_scored_team2 |-> 0] :
        in \in ({"1970-01-01T00:00:00.000001Z"} \X {"1", "2"} \X {"1", "2"})
               \cup {<<"yesterday", "1", "2">>,
                     <<"1970-01-01T00:00:00.000001Z", "zz", "2">>,
                     <<"1970-01-01T00:00:00.000001Z", "1", "zz">>}}

Bodies(resource) ==
    {NoBody} \cup
    CASE resource = "players" ->
             {[json |-> TRUE, name |-> "a", date_birth |-> d] : d \in DateStrings}
      [] resource = "matches" -> MatchInputs
      [] OTHER -> {[json |-> TRUE, name |-> "a"]}

Paths(resource) ==
    CASE resource = "teams" -> CrudPaths \cup SubPaths("players")
      [] resource = "tournaments" -> CrudPaths \cup SubPaths("teams")
      [] OTHER -> CrudPaths

\* the requests a client sends: a body goes with POST and PUT only
HTTPRequests ==
    UNION {UNION {{[resource |-> res, method |-> m, segments |-> p, body |-> b,
                    storage |-> st] :
                      p \in Paths(res),
                      b \in IF m \in {"POST", "PUT"} THEN Bodies(res) ELSE {NoBody},
                      st \in {"up", "down"}} :
                  m \in Methods} :
           res \in {"players", "teams", "tournaments", "matches"}}

\* respondWithError by the handler itself: no use case was called
Reject(status, message) ==
    /\ Respond("ServeHTTP", <<message>>, status, Nil)
    /\ UNCHANGED <<store, nextUUID, inflight>>

\* the error of a repository call when the storage cannot be reached
StorageErr == <<"dial tcp: connection refused">>

\* a handler calling a use case: Call when the storage answers; when it does
\* not, the first repository call of the use case fails, the use case returns
\* that error (behind label, where it wraps the error of that call) and the
\* handler answers it with the status it answers every error of the use case
UseCase(op, label, status, Call) ==
    IF request.storage = "up"
    THEN Call
    ELSE /\ Respond(op, label \o StorageErr, status, Nil)
         /\ UNCHANGED <<store, nextUUID, inflight>>

\* uuid.Parse(idStr) at the head of GetByID, Update and Delete
WithID_NotFound(r, Handler) ==
    IF PathID(r.segments) = {}
    THEN Reject(404, "Invalid UUID")
    ELSE Handler

WithID(r, Handler) ==
    IF PathID(r.segments) = {}
    THEN Reject(400, "Invalid UUID")
    ELSE Handler

\* the switch on r.Method that closes the four ServeHTTP
StandardCRUD(r, GetAll, GetByID, Create, Update, Delete) ==
    CASE r.method = "GET" ->
             IF r.segments = <<"">> THEN GetAll ELSE WithID(r, GetByID)
      [] r.method = "POST" -> Create
      [] r.method = "PUT" -> WithID(r, Update)
      [] r.method = "DELETE" -> WithID(r, Delete)
      [] OTHER -> Reject(405, "Method not allowed")

\* PlayerHandler.Create and PlayerHandler.Update: the body is decoded, then
\* the date is parsed, before the use case is called
PlayerInput(r, message, Handler) ==
    IF ~r.body.json THEN Reject(400, "Invalid request payload")
    ELSE IF parseDateTime(r.body.date_birth) = {}
    THEN Reject(400, message)
    ELSE Handler

\* id and dateBirth are what uuid.Parse and parseDateTime return once
\* WithID and PlayerInput let the request pass
PlayerHandlerServeHTTP(r) ==
    StandardCRUD(r,
        UseCase("GetAllPlayers", Nil, 500, GetAllPlayers),
        \E id \in PathID(r.segments) :
            UseCase("GetPlayerByID", Nil, 404, GetPlayerByID(id)),
        PlayerInput(r, "Invalid date format, use ISO 8601",
            \E dateBirth \in parseDateTime(r.body.date_birth) :
                UseCase("CreatePlayer", Nil, 500,
                        CreatePlayer(r.body.name, dateBirth))),
        PlayerInput(r, "Invalid date format",
            \E id \in PathID(r.segments),
               dateBirth \in parseDateTime(r.body.date_birth) :
                UseCase("UpdatePlayer", Nil, 500,
                        UpdatePlayer(id, r.body.name, dateBirth))),
        \E id \in PathID(r.segments) :
            UseCase("DeletePlayer", Nil, 500, DeletePlayer(id)))

\* TeamHandler / TournamentHandler Create and Update: the body is decoded
NameInput(r, Handler) ==
    IF ~r.body.json THEN Reject(400, "Invalid request payload")
    ELSE Handler

\* /api/teams/{id}/players/{playerId}: both ids are parsed, then the method
\* chooses
TeamHandlerMembership_Swapped(r) ==
    IF uuidParse(r.segments[1]) = {} THEN Reject(400, "Invalid team UUID")
    ELSE IF uuidParse(r.segments[3]) = {} THEN Reject(400, "Invalid player UUID")
    ELSE \E teamID \in uuidParse(r.segments[1]),
            playerID \in uuidParse(r.segments[3]) :
         CASE r.method = "DELETE" ->
                  UseCase("AddPlayerToTeam", <<"team not found">>, 400,
                          AddPlayerToTeam_Team(teamID, playerID))
           [] r.method = "POST" ->
                  UseCase("RemovePlayerFromTeam", Nil, 400,
                          RemovePlayerFromTeam(teamID, playerID))
           [] OTHER -> Reject(405, "Method not allowed")

TeamHandlerMembership(r) ==
    IF uuidParse(r.segments[1]) = {} THEN Reject(400, "Invalid team UUID")
    ELSE IF uuidParse(r.segments[3]) = {} THEN Reject(400, "Invalid player UUID")
    ELSE \E teamID \in uuidParse(r.segments[1]),
            playerID \in uuidParse(r.segments[3]) :
         CASE r.method = "POST" ->
                  UseCase("AddPlayerToTeam", <<"team not found">>, 400,
                          AddPlayerToTeam_Team(teamID, playerID))
           [] r.method = "DELETE" ->
                  UseCase("RemovePlayerFromTeam", Nil, 400,
                          RemovePlayerFromTeam(teamID, playerID))
           [] OTHER -> Reject(405, "Method not allowed")

TeamHandlerCRUD(r) ==
    StandardCRUD(r,
        UseCase("GetAllTeams", Nil, 500, GetAllTeams),
        \E id \in PathID(r.segments) :
            UseCase("GetTeamByID", Nil, 404, GetTeamByID(id)),
        NameInput(r, UseCase("CreateTeam", Nil, 500, CreateTeam(r.body.name))),
        NameInput(r,
            \E id \in PathID(r.segments) :
                UseCase("UpdateTeam", Nil, 500, UpdateTeam(id, r.body.name))),
        \E id \in PathID(r.segments) :
            UseCase("DeleteTeam", Nil, 500, DeleteTeam(id)))

\* a request of two segments that is not a GET goes on to the CRUD switch
TeamHandlerServeHTTP(r) ==
    IF Len(r.segments) >= 3 /\ r.segments[2] = "players"
    THEN TeamHandlerMembership(r)
    ELSE IF Len(r.segments) = 2 /\ r.segments[2] = "players"
            /\ uuidParse(r.segments[1]) = {}
    THEN Reject(400, "Invalid team UUID")
    ELSE IF Len(r.segments) = 2 /\ r.segments[2] = "players" /\ r.method = "GET"
    THEN \E teamID \in uuidParse(r.segments[1]) :
            UseCase("GetTeamPlayers", Nil, 500, GetTeamPlayers(teamID))
    ELSE TeamHandlerCRUD(r)

\* /api/tournaments/{id}/teams/{teamId}
TournamentHandlerMembership(r) ==
    IF uuidParse(r.segments[1]) = {} THEN Reject(400, "Invalid tournament UUID")
    ELSE IF uuidParse(r.segments[3]) = {} THEN Reject(400, "Invalid team UUID")
    ELSE \E tournamentID \in uuidParse(r.segments[1]),
            teamID \in uuidParse(r.segments[3]) :
         CASE r.method = "POST" ->
                  UseCase("AddTeamToTournament", <<"tournament not found">>, 400,
                          AddTeamToTournament_Tournament(tournamentID, teamID))
           [] r.method = "DELETE" ->
                  UseCase("RemoveTeamFromTournament", Nil, 400,
                          RemoveTeamFromTournament(tournamentID, teamID))
           [] OTHER -> Reject(405, "Method not allowed")

TournamentHandlerCRUD(r) ==
    StandardCRUD(r,
        UseCase("GetAllTournaments", Nil, 500, GetAllTournaments),
        \E id \in PathID(r.segments) :
            UseCase("GetTournamentByID", Nil, 404, GetTournamentByID(id)),
        NameInput(r, UseCase("CreateTournament", Nil, 500, CreateTournament(r.body.name))),
        NameInput(r,
            \E id \in PathID(r.segments) :
                UseCase("UpdateTournament", Nil, 500, UpdateTournament(id, r.body.name))),
        \E id \in PathID(r.segments) :
            UseCase("DeleteTournament", Nil, 500, DeleteTournament(id)))

TournamentHandlerServeHTTP(r) ==
    IF Len(r.segments) >= 3 /\ r.segments[2] = "teams"
    THEN TournamentHandlerMembership(r)
    ELSE IF Len(r.segments) = 2 /\ r.segments[2] = "teams"
            /\ uuidParse(r.segments[1]) = {}
    THEN Reject(400, "Invalid tournament UUID")
    ELSE IF Len(r.segments) = 2 /\ r.segments[2] = "teams" /\ r.method = "GET"
    THEN \E tournamentID \in uuidParse(r.segments[1]) :
            UseCase("GetTournamentTeams", Nil, 500, GetTournamentTeams(tournamentID))
    ELSE TournamentHandlerCRUD(r)

\* MatchHandler.Create and MatchHandler.Update: the body is decoded, then the
\* date and the two team ids are parsed, before the use case is called
MatchInput(r, Handler) ==
    IF ~r.body.json THEN Reject(400, "Invalid request payload")
    ELSE IF parseDateTime(r.body.date) = {} THEN Reject(400, "Invalid date format")
    ELSE IF uuidParse(r.body.team1_id) = {} THEN Reject(400, "Invalid team1_id UUID")
    ELSE IF uuidParse(r.body.team2_id) = {} THEN Reject(400, "Invalid team2_id UUID")
    ELSE Handler

MatchHandlerServeHTTP(r) ==
    StandardCRUD(r,
        UseCase("GetAllMatches", Nil, 500, GetAllMatches),
        \E id \in PathID(r.segments) :
            UseCase("GetMatchByID", Nil, 404, GetMatchByID(id)),
        MatchInput(r,
            \E date \in parseDateTime(r.body.date),
               team1ID \in uuidParse(r.body.team1_id),
               team2ID \in uuidParse(r.body.team2_id) :
                UseCase("CreateMatch", <<"team1 not found">>, 400,
                    CreateMatch_Team1(r.body.match_number, date, team1ID, team2ID,
                        r.body.goal_scored_team1, r.body.goal_scored_team2))),
        MatchInput(r,
            \E id \in PathID(r.segments),
               date \in parseDateTime(r.body.date),
               team1ID \in uuidParse(r.body.team1_id),
               team2ID \in uuidParse(r.body.team2_id) :
                UseCase("UpdateMatch", <<"team1 not found">>, 400,
                    UpdateMatch_Team1(id, r.body.match_number, date, team1ID,
                        team2ID, r.body.goal_scored_team1,
                        r.body.goal_scored_team2))),
        \E id \in PathID(r.segments) :
            UseCase("DeleteMatch", Nil, 500, DeleteMatch(id)))

\* enableCORS: a preflight request is answered before the handler
enableCORS(r, Handler) ==
    IF r.method = "OPTIONS"
    THEN /\ Respond("ServeHTTP", Nil, 200, Nil)
         /\ UNCHANGED <<store, nextUUID, inflight>>
    ELSE Handler

\* mux.Handle: the handler of the prefix, behind enableCORS
ServeMux(r) ==
    enableCORS(r,
        CASE r.resource = "players" -> PlayerHandlerServeHTTP(r)
          [] r.resource = "teams" -> TeamHandlerServeHTTP(r)
          [] r.resource = "tournaments" -> TournamentHandlerServeHTTP(r)
          [] r.resource = "matches" -> MatchHandlerServeHTTP(r))

\* a request is received: no response to it is written yet
Arrive(r) ==
    /\ request = NoRequest
    /\ inflight = EmptyBag
    /\ request' = r
    /\ last' = [op |-> "none", err |-> Nil, status |-> 0, out |-> Nil]
    /\ UNCHANGED <<store, nextUUID, inflight>>

\* the request under observation is handed to its handler
Serve ==
    /\ request # NoRequest
    /\ last.status = 0
    /\ inflight = EmptyBag
    /\ ServeMux(request)

\* ------------------------------------------------------------ Next
Requests == BagToSet(inflight)

NextPlayer(names) ==
    \/ \E n \in names, d \in Dates : CreatePlayer(n, d)
    \/ \E id \in UUIDs, n \in names, d \in Dates : UpdatePlayer(id, n, d)
    \/ \E id \in UUIDs : DeletePlayer(id)

NextTeam ==
    \/ \E n \in Names : CreateTeam(n)
    \/ \E id \in UUIDs, n \in Names : UpdateTeam(id, n)
    \/ \E id \in UUIDs : DeleteTeam(id)

NextTeamPlayers ==
    \/ \E t \in UUIDs, p \in UUIDs : AddPlayerToTeam_Team(t, p)
    \/ \E req \in Requests : AddPlayerToTeam_Player(req)
    \/ \E req \in Requests : AddPlayerToTeam_Write(req)
    \/ \E t \in UUIDs, p \in UUIDs : RemovePlayerFromTeam(t, p)

NextTournament(names) ==
    \/ \E n \in names : CreateTournament(n)
    \/ \E id \in UUIDs, n \in names : UpdateTournament(id, n)
    \/ \E id \in UUIDs : DeleteTournament(id)

NextTournamentTeams ==
    \/ \E o \in UUIDs, t \in UUIDs : AddTeamToTournament_Tournament(o, t)
    \/ \E req \in Requests : AddTeamToTournament_Team(req)
    \/ \E req \in Requests : AddTeamToTournament_Write(req)
    \/ \E o \in UUIDs, t \in UUIDs : RemoveTeamFromTournament(o, t)

NextMatch ==
    \/ \E mn \in MatchNumbers, d \in Dates, t1 \in UUIDs, t2 \in UUIDs,
          g1 \in Goals, g2 \in Goals : CreateMatch_Team1(mn, d, t1, t2, g1, g2)
    \/ \E req \in Requests : CreateMatch_Team2(req)
    \/ \E req \in Requests : CreateMatch_Write(req)
    \/ \E id \in UUIDs, mn \in MatchNumbers, d \in Dates, t1 \in UUIDs,
          t2 \in UUIDs, g1 \in Goals, g2 \in Goals :
              UpdateMatch_Team1(id, mn, d, t1, t2, g1, g2)
    \/ \E req \in Requests : UpdateMatch_Team2(req)
    \/ \E req \in Requests : UpdateMatch_Write(req)
    \/ \E id \in UUIDs : DeleteMatch(id)

\* the whole API
Next ==
    \/ NextPlayer(Names)
    \/ NextTeam
    \/ NextTeamPlayers
    \/ NextTournament(Names)
    \/ NextTournamentTeams
    \/ NextMatch

Spec == Init /\ [][Next]_vars

\* /api/teams and /api/matches
NextMatches == NextTeam \/ NextMatch

SpecMatches == Init /\ [][NextMatches]_vars

\* both membership relations, with the requests that create and delete their
\* two sides
NextRelations ==
    \/ \E d \in Dates : CreatePlayer("a", d)
    \/ \E id \in UUIDs : DeletePlayer(id)
    \/ \E n \in Names : CreateTeam(n)
    \/ \E id \in UUIDs : DeleteTeam(id)
    \/ NextTeamPlayers
    \/ CreateTournament("a")
    \/ \E id \in UUIDs : DeleteTournament(id)
    \/ NextTournamentTeams

SpecRelations == Init /\ [][NextRelations]_vars

\* the four resources without the membership relations
NextCrud ==
    \/ NextPlayer({"a"})
    \/ NextTeam
    \/ NextTournament({"a"})
    \/ NextMatch

SpecCrud == Init /\ [][NextCrud]_vars

\* the players resource alone, with dates of birth on and off the storage's
\* microsecond grid
BirthDates == {Microsecond, Microsecond + 1}

NextPlayers ==
    \/ \E n \in Names, d \in BirthDates : CreatePlayer(n, d)
    \/ \E id \in UUIDs, n \in Names, d \in BirthDates : UpdatePlayer(id, n, d)
    \/ \E id \in UUIDs : DeletePlayer(id)
    \/ \E id \in UUIDs : GetPlayerByID(id)

SpecPlayers == Init /\ [][NextPlayers]_vars

\* one HTTP request, of any method, path and body, served on a store that
\* earlier requests filled with players, teams and tournaments
NextHTTP ==
    \/ \E d \in Dates : request = NoRequest /\ CreatePlayer("a", d)
    \/ \E n \in Names : request = NoRequest /\ CreateTeam(n)
    \/ request = NoRequest /\ CreateTournament("a")
    \/ \E r \in HTTPRequests : Arrive(r)
    \/ Serve
    \/ \E req \in Requests : AddPlayerToTeam_Player(req)
    \/ \E req \in Requests : AddPlayerToTeam_Write(req)
    \/ \E req \in Requests : AddTeamToTournament_Team(req)
    \/ \E req \in Requests : AddTeamToTournament_Write(req)
    \/ \E req \in Requests : CreateMatch_Team2(req)
    \/ \E req \in Requests : CreateMatch_Write(req)
    \/ \E req \in Requests : UpdateMatch_Team2(req)
    \/ \E req \in Requests : UpdateMatch_Write(req)

SpecHTTP == Init /\ [][NextHTTP]_vars

\* the two membership relations and their lists, with players and teams of
\* two names
NextMembers ==
    \/ \E n \in Names, d \in Dates : CreatePlayer(n, d)
    \/ \E n \in Names : CreateTeam(n)
    \/ CreateTournament("a")
    \/ NextTeamPlayers
    \/ NextTournamentTeams
    \/ \E t \in UUIDs : GetTeamPlayers(t)
    \/ \E o \in UUIDs : GetTournamentTeams(o)

SpecMembers == Init /\ [][NextMembers]_vars

\* the four lists, on a store in which two teams were registered before the
\* first uuid of the behaviour: matches on two dates, played by those teams
MatchDates == {Microsecond, 2 * Microsecond}

RegisteredTeams ==
    [id \in {-1, 0} |->
        [name |-> IF id = 0 THEN "b" ELSE "a", created_at |-> (id - 1) * Microsecond]]

InitLists ==
    /\ players = <<>>
    /\ teams = RegisteredTeams
    /\ tournaments = <<>>
    /\ matches = <<>>
    /\ team_players = EmptyBag
    /\ tournament_teams = EmptyBag
    /\ nextUUID = 0
    /\ inflight = EmptyBag
    /\ last = [op |-> "none", err |-> Nil, status |-> 0, out |-> Nil]
    /\ request = NoRequest

NextLists ==
    \/ \E d \in Dates : CreatePlayer("a", d)
    \/ CreateTournament("a")
    \/ \E mn \in MatchNumbers, d \in MatchDates, t1 \in DOMAIN teams,
          t2 \in DOMAIN teams, g1 \in Goals, g2 \in Goals :
              CreateMatch_Team1(mn, d, t1, t2, g1, g2)
    \/ \E req \in Requests : CreateMatch_Team2(req)
    \/ \E req \in Requests : CreateMatch_Write(req)
    \/ \E id \in UUIDs : DeleteMatch(id)
    \/ GetAllPlayers
    \/ GetAllTeams
    \/ GetAllTournaments
    \/ GetAllMatches

SpecLists == InitLists /\ [][NextLists]_vars

\* /api/matches and DELETE /api/teams/{id} on a store in which three teams
\* were registered before the first uuid of the behaviour: a match request
\* can name a team no stored match references
RaceTeams ==
    Put(RegisteredTeams, -2, [name |-> "c", created_at |-> -3 * Microsecond])

InitRace ==
    /\ players = <<>>
    /\ teams = RaceTeams
    /\ tournaments = <<>>
    /\ matches = <<>>
    /\ team_players = EmptyBag
    /\ tournament_teams = EmptyBag
    /\ nextUUID = 0
    /\ inflight = EmptyBag
    /\ last = [op |-> "none", err |-> Nil, status |-> 0, out |-> Nil]
    /\ request = NoRequest

NextRace ==
    \/ \E id \in DOMAIN RaceTeams : DeleteTeam(id)
    \/ \E mn \in MatchNumbers, d \in Dates, t1 \in DOMAIN RaceTeams,
          t2 \in DOMAIN RaceTeams, g1 \in Goals, g2 \in Goals :
              CreateMatch_Team1(mn, d, t1, t2, g1, g2)
    \/ \E req \in Requests : CreateMatch_Team2(req)
    \/ \E req \in Requests : CreateMatch_Write(req)
    \/ \E id \in UUIDs, mn \in MatchNumbers, d \in Dates,
          t1 \in DOMAIN RaceTeams, t2 \in DOMAIN RaceTeams, g1 \in Goals,
          g2 \in Goals : UpdateMatch_Team1(id, mn, d, t1, t2, g1, g2)
    \/ \E req \in Requests : UpdateMatch_Team2(req)
    \/ \E req \in Requests : UpdateMatch_Write(req)

SpecRace == InitRace /\ [][NextRace]_vars

\* players and matches created and updated with every value the decoded
\* body can hand to the use case: a name that is empty (or absent from the
\* body: the zero value of the string field), a goal count below zero; the
\* matches are between the two registered teams
NextInputs ==
    \/ \E n \in {"", "a"}, d \in Dates : CreatePlayer(n, d)
    \/ \E id \in UUIDs, n \in {"", "a"}, d \in Dates : UpdatePlayer(id, n, d)
    \/ \E mn \in MatchNumbers, d \in Dates, g1 \in {-1, 0}, g2 \in {-1, 0} :
              CreateMatch_Team1(mn, d, -1, 0, g1, g2)
    \/ \E req \in Requests : CreateMatch_Team2(req)
    \/ \E req \in Requests : CreateMatch_Write(req)
    \/ \E id \in UUIDs, mn \in MatchNumbers, d \in Dates, g1 \in {-1, 0},
          g2 \in {-1, 0} : UpdateMatch_Team1(id, mn, d, -1, 0, g1, g2)
    \/ \E req \in Requests : UpdateMatch_Team2(req)
    \/ \E req \in Requests : UpdateMatch_Write(req)

SpecInputs == InitLists /\ [][NextInputs]_vars

\* one client on one connection: it sends a request when it has read the
\* response to the one before, and keeps the exchanges so far in its log
SessionRequests ==
    {[resource |-> q[1], method |-> q[2], segments |-> q[3], body |-> q[4],
      storage |-> "up", log |-> <<>>] :
        q \in {<<"teams", "POST", <<"">>, [json |-> TRUE, name |-> "a"]>>,
               <<"players", "POST", <<"">>,
                 [json |-> TRUE, name |-> "a",
                  date_birth |-> "1970-01-01T00:00:00.000001Z"]>>,
               <<"teams", "POST", <<"1", "players", "2">>, NoBody>>,
               <<"teams", "POST", <<"2", "players", "1">>, NoBody>>,
               <<"teams", "GET", <<"1", "players">>, NoBody>>,
               <<"teams", "GET", <<"2", "players">>, NoBody>>}
              \cup {<<"matches", "POST", <<"">>, b>> :
                        b \in {m \in MatchInputs :
                                  m.team1_id = "1" /\ m.team2_id \in {"1", "2"}}}}

\* the request just answered and its response, as the client read them
Exchange ==
    [resource |-> request.resource, method |-> request.method,
     segments |-> request.segments, body |-> request.body,
     status |-> last.status, err |-> last.err, out |-> last.out]

\* the client sends its next request on the same connection
Follow(r) ==
    /\ request # NoRequest
    /\ last.status # 0
    /\ inflight = EmptyBag
    /\ Len(request.log) + 1 < MaxExchanges
    /\ request' = [r EXCEPT !.log = Append(request.log, Exchange)]
    /\ last' = [op |-> "none", err |-> Nil, status |-> 0, out |-> Nil]
    /\ UNCHANGED <<store, nextUUID, inflight>>

NextSession ==
    \/ \E r \in SessionRequests : Arrive(r)
    \/ Serve
    \/ \E r \in SessionRequests : Follow(r)
    \/ \E req \in Requests : AddPlayerToTeam_Player(req)
    \/ \E req \in Requests : AddPlayerToTeam_Write(req)
    \/ \E req \in Requests : CreateMatch_Team2(req)
    \/ \E req \in Requests : CreateMatch_Write(req)

SpecSession == Init /\ [][NextSession]_vars

\* =================================================================== claims
SelfMatchErr == <<"a team cannot play against itself">>
Team1NotFound == <<"team1 not found", "team not found">>
Team2NotFound == <<"team2 not found", "team not found">>

\* the step leaves the response of use case op as the last response
Answers(op) == last'.op = op

\* the request leaves the server in this step (it does not move on to its
\* next statement)
Completes(req) == inflight' = inflight (-) SetToBag({req})

\* ----------------------------------------------------------------- C1
\* C1: in every reachable state, whatever CreateMatch, UpdateMatch,
\* DeleteMatch and team requests ran and however they interleaved, every
\* stored match has team1_id different from team2_id.
C1_DistinctTeams ==
    \A m \in DOMAIN matches : matches[m].team1_id # matches[m].team2_id

\* a match is stored and an update of a match to team1 = team2 was rejected
C1_Witness ==
    /\ matches # <<>>
    /\ last.op = "UpdateMatch"
    /\ last.err = SelfMatchErr

\* ----------------------------------------------------------------- C2
\* C2 as stated: every CreateMatch call with team1_id = team2_id answers
\* with "a team cannot play against itself", whatever teams are stored, and
\* leaves the stored matches unchanged.
C2_Original ==
    [][/\ \A mn \in MatchNumbers, d \in Dates, t \in UUIDs, g1 \in Goals, g2 \in Goals :
            CreateMatch_Team1(mn, d, t, t, g1, g2) /\ inflight' = inflight
                => last'.err = SelfMatchErr /\ matches' = matches
       /\ \A req \in Requests :
            /\ req.arg.team1_id = req.arg.team2_id
            /\ CreateMatch_Team2(req) \/ CreateMatch_Write(req)
            /\ Completes(req)
            => last'.err = SelfMatchErr /\ matches' = matches]_vars

\* C2 amended: every CreateMatch call with team1_id = team2_id fails and
\* leaves the stored matches unchanged; its error is "a team cannot play
\* against itself" when the team is stored at both lookups, "team1 not found"
\* when it is missing at the first and "team2 not found" when it is missing
\* at the second.
C2_SelfMatchRejected ==
    [][/\ \A mn \in MatchNumbers, d \in Dates, t \in UUIDs, g1 \in Goals, g2 \in Goals :
            CreateMatch_Team1(mn, d, t, t, g1, g2)
                => /\ matches' = matches
                   /\ IF t \in DOMAIN teams
                      THEN last' = last /\ inflight' # inflight
                      ELSE /\ last'.op = "CreateMatch"
                           /\ last'.err = Team1NotFound
                           /\ last'.status = 400
                           /\ inflight' = inflight
       /\ \A req \in Requests :
            /\ req.arg.team1_id = req.arg.team2_id
            /\ CreateMatch_Team2(req)
            => /\ matches' = matches
               /\ IF req.arg.team2_id \in DOMAIN teams
                  THEN last' = last /\ ~Completes(req)
                  ELSE /\ last'.op = "CreateMatch"
                       /\ last'.err = Team2NotFound
                       /\ last'.status = 400
                       /\ Completes(req)
       /\ \A req \in Requests :
            /\ req.arg.team1_id = req.arg.team2_id
            /\ CreateMatch_Write(req)
            => /\ matches' = matches
               /\ last'.op = "CreateMatch"
               /\ last'.err = SelfMatchErr
               /\ last'.status = 400
               /\ Completes(req)]_vars

\* a CreateMatch with team1_id = team2_id was rejected as a self match
C2_Witness ==
    /\ last.op = "CreateMatch"
    /\ last.err = SelfMatchErr
    /\ teams # <<>>

\* ----------------------------------------------------------------- C3
\* C3: a CreateMatch whose team1_id names no stored team fails with an error
\* labelled "team1 not found"; one whose team1_id is stored but whose
\* team2_id names no stored team fails with an error labelled "team2 not
\* found"; neither writes a match row, and the request ends there.
C3_TeamNotFound ==
    [][/\ \A mn \in MatchNumbers, d \in Dates, t1 \in UUIDs, t2 \in UUIDs,
             g1 \in Goals, g2 \in Goals :
            CreateMatch_Team1(mn, d, t1, t2, g1, g2) /\ t1 \notin DOMAIN teams
                => /\ last'.op = "CreateMatch"
                   /\ last'.err = Team1NotFound
                   /\ last'.status = 400
                   /\ matches' = matches
                   /\ inflight' = inflight
       /\ \A req \in Requests :
            CreateMatch_Team2(req) /\ req.arg.team2_id \notin DOMAIN teams
                => /\ last'.op = "CreateMatch"
                   /\ last'.err = Team2NotFound
                   /\ last'.status = 400
                   /\ matches' = matches
                   /\ Completes(req)]_vars

\* a CreateMatch found team1 and then failed on a missing team2
C3_Witness ==
    /\ last.op = "CreateMatch"
    /\ last.err = Team2NotFound
    /\ inflight = EmptyBag

\* ----------------------------------------------------------------- C4
\* C4: in every reachable state, also those reached by a DeleteTeam that
\* runs between the statements of a CreateMatch or UpdateMatch, team1_id and
\* team2_id of every stored match each name a stored team.
C4_TeamsStored ==
    \A m \in DOMAIN matches :
        matches[m].team1_id \in DOMAIN teams /\ matches[m].team2_id \in DOMAIN teams

\* a team was deleted between the lookups and the write of a match request,
\* and the storage rejected the row
C4_Witness ==
    /\ last.op \in {"CreateMatch", "UpdateMatch"}
    /\ last.err = <<"foreign_key_violation">>

\* ----------------------------------------------------------------- C5
TeamsNamed(n) == {i \in DOMAIN TeamRepoGetAll : TeamRepoGetAll[i].name = n}

\* C5: in every reachable state no two stored teams have the same name; of
\* CreateTeam calls with one name, in any order, the one that finds the name
\* free succeeds and one that finds it stored fails with the storage's
\* uniqueness violation and leaves the team table unchanged; GetAllTeams
\* then lists exactly one team with that name.
C5_UniqueTeamName ==
    /\ [](\A t \in DOMAIN teams, u \in DOMAIN teams :
              teams[t].name = teams[u].name => t = u)
    /\ [][\A n \in Names :
            CreateTeam(n)
                => /\ last'.op = "CreateTeam"
                   /\ IF TeamsNamed(n) = {}
                      THEN last'.err = Nil /\ last'.status = 201
                      ELSE /\ last'.err = <<"unique_violation">>
                           /\ last'.status # 201
                           /\ teams' = teams
                   /\ Cardinality(TeamsNamed(n)') = 1]_vars

\* a second CreateTeam with a stored name was rejected
C5_Witness ==
    /\ last.op = "CreateTeam"
    /\ last.err = <<"unique_violation">>
    /\ Len(TeamRepoGetAll) = 1

\* ----------------------------------------------------------------- C6
\* C6: a (team, player) pair and a (tournament, team) pair are each stored
\* at most once in every reachable state; the insert of AddPlayerToTeam /
\* AddTeamToTournament for a pair that is a member fails with the storage's
\* uniqueness violation, leaves the relation unchanged and is answered 400.
C6_MembershipOnce ==
    /\ [](/\ \A r \in DOMAIN team_players : CopiesIn(r, team_players) <= 1
          /\ \A r \in DOMAIN tournament_teams : CopiesIn(r, tournament_teams) <= 1)
    /\ [][/\ \A req \in Requests :
               /\ AddPlayerToTeam_Write(req)
               /\ BagIn(<<req.arg.team_id, req.arg.player_id>>, team_players)
               => /\ last'.op = "AddPlayerToTeam"
                  /\ last'.err = <<"unique_violation">>
                  /\ last'.status = 400
                  /\ team_players' = team_players
          /\ \A req \in Requests :
               /\ AddTeamToTournament_Write(req)
               /\ BagIn(<<req.arg.tournament_id, req.arg.team_id>>, tournament_teams)
               => /\ last'.op = "AddTeamToTournament"
                  /\ last'.err = <<"unique_violation">>
                  /\ last'.status = 400
                  /\ tournament_teams' = tournament_teams]_vars

\* both relations hold a pair and a second attach of a member pair was
\* rejected
C6_Witness ==
    /\ last.op \in {"AddPlayerToTeam", "AddTeamToTournament"}
    /\ last.err = <<"unique_violation">>
    /\ last.status = 400
    /\ team_players # EmptyBag
    /\ tournament_teams # EmptyBag

\* ----------------------------------------------------------------- C7
\* C7: AddPlayerToTeam answers "team not found" when its team lookup fails
\* and otherwise "player not found" when its player lookup fails, and then
\* writes nothing and ends; it goes on to the next statement only when the
\* lookup found its row, and a team_players row is only ever added by the
\* insert of a request that passed both lookups.  AddTeamToTournament does
\* the same with "tournament not found" and "team not found".
C7_AttachLookups ==
    [][/\ CanStart => \A t \in UUIDs, p \in UUIDs :
            AddPlayerToTeam_Team(t, p)
                => /\ team_players' = team_players
                   /\ IF t \in DOMAIN teams
                      THEN last' = last /\ inflight' # inflight
                      ELSE /\ last'.op = "AddPlayerToTeam"
                           /\ last'.err = <<"team not found", "team not found">>
                           /\ inflight' = inflight
       /\ \A req \in Requests :
            AddPlayerToTeam_Player(req)
                => /\ team_players' = team_players
                   /\ IF req.arg.player_id \in DOMAIN players
                      THEN last' = last /\ ~Completes(req)
                      ELSE /\ last'.op = "AddPlayerToTeam"
                           /\ last'.err = <<"player not found", "player not found">>
                           /\ Completes(req)
       /\ \A r \in DOMAIN team_players' :
            CopiesIn(r, team_players') > CopiesIn(r, team_players)
                => \E req \in InflightAt("AddPlayerToTeam", "write") :
                      /\ AddPlayerToTeam_Write(req)
                      /\ r = <<req.arg.team_id, req.arg.player_id>>
       /\ CanStart => \A o \in UUIDs, t \in UUIDs :
            AddTeamToTournament_Tournament(o, t)
                => /\ tournament_teams' = tournament_teams
                   /\ IF o \in DOMAIN tournaments
                      THEN last' = last /\ inflight' # inflight
                      ELSE /\ last'.op = "AddTeamToTournament"
                           /\ last'.err = <<"tournament not found", "tournament not found">>
                           /\ inflight' = inflight
       /\ \A req \in Requests :
            AddTeamToTournament_Team(req)
                => /\ tournament_teams' = tournament_teams
                   /\ IF req.arg.team_id \in DOMAIN teams
                      THEN last' = last /\ ~Completes(req)
                      ELSE /\ last'.op = "AddTeamToTournament"
                           /\ last'.err = <<"team not found", "team not found">>
                           /\ Completes(req)
       /\ \A r \in DOMAIN tournament_teams' :
            CopiesIn(r, tournament_teams') > CopiesIn(r, tournament_teams)
                => \E req \in InflightAt("AddTeamToTournament", "write") :
                      /\ AddTeamToTournament_Write(req)
                      /\ r = <<req.arg.tournament_id, req.arg.team_id>>]_vars

\* a team has a player, and an attach to it of an id that names no player
\* was rejected at the second lookup
C7_Witness ==
    /\ last.op = "AddPlayerToTeam"
    /\ last.err = <<"player not found", "player not found">>
    /\ team_players # EmptyBag

\* ----------------------------------------------------------------- C8
\* C8: a DeleteTeam of a stored team succeeds, and after it no team_players
\* (or tournament_teams) row references the team, GetTeamPlayers of it is
\* empty and GetTeamByID of it is not-found; a DeletePlayer / DeleteTournament
\* of a stored id removes every membership row that references the id.
C8_Cascade ==
    [][/\ Answers("DeleteTeam") => \A id \in UUIDs :
            id \in DOMAIN teams /\ DeleteTeam(id)
                => /\ last'.err = Nil
                   /\ \A r \in DOMAIN team_players' : r[1] # id
                   /\ \A r \in DOMAIN tournament_teams' : r[2] # id
                   /\ TeamRepoGetTeamPlayers(id)' = {<<>>}
                   /\ TeamRepoGetByID(id)' = <<"team not found">>
       /\ Answers("DeletePlayer") => \A id \in UUIDs :
            id \in DOMAIN players /\ DeletePlayer(id)
                => /\ last'.err = Nil
                   /\ \A r \in DOMAIN team_players' : r[2] # id
                   /\ PlayerRepoGetByID(id)' = <<"player not found">>
       /\ Answers("DeleteTournament") => \A id \in UUIDs :
            id \in DOMAIN tournaments /\ DeleteTournament(id)
                => /\ last'.err = Nil
                   /\ \A r \in DOMAIN tournament_teams' : r[1] # id
                   /\ TournamentRepoGetTournamentTeams(id)' = {<<>>}
                   /\ TournamentRepoGetByID(id)' = <<"tournament not found">>]_vars

\* a team was deleted, and the membership of a player in another team is
\* still stored
C8_Witness ==
    /\ last.op = "DeleteTeam"
    /\ last.err = Nil
    /\ team_players # EmptyBag

\* ----------------------------------------------------------------- C9
\* C9: for each of the four entities, a Delete of an id that is not stored
\* returns the entity's not-found error, is answered with an error status
\* (500, never 200) and leaves the store unchanged; a Delete of a stored id
\* succeeds and removes it, so that a second Delete of it is not-found.
C9_DeleteMissing ==
    [][/\ Answers("DeletePlayer") => \A id \in UUIDs :
            /\ id \notin DOMAIN players /\ DeletePlayer(id)
                   => /\ last'.err = <<"player not found">>
                      /\ last'.status = 500
                      /\ store' = store
            /\ id \in DOMAIN players /\ DeletePlayer(id)
                   => /\ last'.err = Nil /\ last'.status = 200
                      /\ PlayerRepoDeleteErr(id)' = <<"player not found">>
       /\ Answers("DeleteTeam") => \A id \in UUIDs :
            /\ id \notin DOMAIN teams /\ DeleteTeam(id)
                   => /\ last'.err = <<"team not found">>
                      /\ last'.status = 500
                      /\ store' = store
            /\ id \in DOMAIN teams /\ DeleteTeam(id)
                   => /\ last'.err = Nil /\ last'.status = 200
                      /\ TeamRepoDeleteErr(id)' = <<"team not found">>
       /\ Answers("DeleteTournament") => \A id \in UUIDs :
            /\ id \notin DOMAIN tournaments /\ DeleteTournament(id)
                   => /\ last'.err = <<"tournament not found">>
                      /\ last'.status = 500
                      /\ store' = store
            /\ id \in DOMAIN tournaments /\ DeleteTournament(id)
                   => /\ last'.err = Nil /\ last'.status = 200
                      /\ TournamentRepoDeleteErr(id)' = <<"tournament not found">>
       /\ Answers("DeleteMatch") => \A id \in UUIDs :
            /\ id \notin DOMAIN matches /\ DeleteMatch(id)
                   => /\ last'.err = <<"match not found">>
                      /\ last'.status = 500
                      /\ store' = store
            /\ id \in DOMAIN matches /\ DeleteMatch(id)
                   => /\ last'.err = Nil /\ last'.status = 200
                      /\ MatchRepoDeleteErr(id)' = <<"match not found">>]_vars

\* a DeletePlayer of an id that names no player was answered 500 while
\* another player stays stored
C9_Witness ==
    /\ last.op = "DeletePlayer"
    /\ last.err = <<"player not found">>
    /\ last.status = 500
    /\ players # <<>>

\* ---------------------------------------------------------------- C10
\* C10: for each of the four entities, an Update of an id that is not stored
\* returns the entity's not-found error and leaves the store unchanged: no
\* row is created and no stored row changes.  For matches this is the
\* repository's Update, which the use case reaches after its two lookups and
\* its distinctness check; a request that fails one of those changes nothing
\* either.
C10_UpdateMissing ==
    [][/\ Answers("UpdatePlayer") => \A id \in UUIDs, n \in Names, d \in Dates :
            id \notin DOMAIN players /\ UpdatePlayer(id, n, d)
                => /\ last'.err = <<"player not found">>
                   /\ store' = store
       /\ Answers("UpdateTeam") => \A id \in UUIDs, n \in Names :
            id \notin DOMAIN teams /\ UpdateTeam(id, n)
                => /\ last'.err = <<"team not found">>
                   /\ store' = store
       /\ Answers("UpdateTournament") => \A id \in UUIDs, n \in Names :
            id \notin DOMAIN tournaments /\ UpdateTournament(id, n)
                => /\ last'.err = <<"tournament not found">>
                   /\ store' = store
       /\ \A req \in Requests :
            /\ req.op = "UpdateMatch"
            /\ req.arg.id \notin DOMAIN matches
            /\ UpdateMatch_Team2(req) \/ UpdateMatch_Write(req)
            => /\ store' = store
               /\ Completes(req) => last'.op = "UpdateMatch" /\ last'.err # Nil
               /\ (UpdateMatch_Write(req) /\ req.arg.team1_id # req.arg.team2_id)
                      => last'.err = <<"match not found">>]_vars

\* an UpdateMatch of an id that names no match reached the repository and was
\* answered with its not-found error
C10_Witness ==
    /\ last.op = "UpdateMatch"
    /\ last.err = <<"match not found">>
    /\ teams # <<>>

\* ---------------------------------------------------------------- C11
\* the player row is left alone by every step but an update or a delete of
\* that player, and GetPlayerByID answers with that row
PlayerRowKept ==
    /\ \A id \in DOMAIN players :
          \/ Answers("UpdatePlayer")
                /\ \E n \in Names, d \in BirthDates : UpdatePlayer(id, n, d)
          \/ Answers("DeletePlayer") /\ DeletePlayer(id)
          \/ /\ id \in DOMAIN players'
             /\ PlayerRepoGetByIDRow(id)' = PlayerRepoGetByIDRow(id)
    /\ Answers("GetPlayerByID") => \A id \in DOMAIN players :
          GetPlayerByID(id) => /\ last'.err = Nil
                               /\ last'.out = PlayerRepoGetByIDRow(id)

\* C11 as stated: after a successful CreatePlayer(name, date_birth) the row
\* GetPlayerByID reads has the identifier the creation answered with, the
\* same name and the same date_birth, until an update or a delete of it.
C11_Original ==
    [][/\ Answers("CreatePlayer") => \A n \in Names, d \in BirthDates :
            CreatePlayer(n, d) /\ last'.err = Nil
                => \A id \in {nextUUID + 1} :
                   LET row == PlayerRepoGetByIDRow(id)' IN
                   /\ last'.out.id = id
                   /\ id \in DOMAIN players'
                   /\ row.id = id
                   /\ row.name = n
                   /\ row.date_birth = d
       /\ PlayerRowKept]_vars

\* C11: after a successful CreatePlayer(name, date_birth) the row
\* GetPlayerByID reads has the identifier the creation answered with, the
\* same name, and the date_birth to the microsecond (less than a microsecond
\* away from the one given, and equal to it when it is a whole number of
\* microseconds), until an update or a delete of that player.
C11_RoundTrip ==
    [][/\ Answers("CreatePlayer") => \A n \in Names, d \in BirthDates :
            CreatePlayer(n, d) /\ last'.err = Nil
                => \A id \in {nextUUID + 1} :
                   LET row == PlayerRepoGetByIDRow(id)' IN
                   /\ last'.out.id = id
                   /\ id \in DOMAIN players'
                   /\ row.id = id
                   /\ row.name = n
                   /\ row.date_birth - d < Microsecond
                   /\ d - row.date_birth < Microsecond
                   /\ d % Microsecond = 0 => row.date_birth = d
       /\ PlayerRowKept]_vars

\* a player created with a date of birth off the microsecond grid was read
\* back after another player had been created
C11_Witness ==
    /\ last.op = "GetPlayerByID"
    /\ last.err = Nil
    /\ last.out.id = 1
    /\ last.out.name = "b"
    /\ last.out.date_birth = Microsecond
    /\ Cardinality(DOMAIN players) = 2

\* ---------------------------------------------------------------- C12
\* the rows of a table other than the row of id
OtherRows(table, id) == [k \in DOMAIN table \ {id} |-> table[k]]

\* a row stored before and after a step has the creation timestamp it had
CreatedAtKept(table, tableAfter) ==
    \A id \in DOMAIN table \cap DOMAIN tableAfter :
        tableAfter[id].created_at = table[id].created_at

\* a step that answers the update op: one row at most is changed, the one the
\* answer names, and no row is added or removed
UpdateAnswered(op, table, tableAfter) ==
    Answers(op) /\ inflight' = inflight
        => /\ DOMAIN tableAfter = DOMAIN table
           /\ last'.err # Nil => tableAfter = table
           /\ last'.err = Nil =>
                 \A id \in DOMAIN table \ {last'.out.id} : tableAfter[id] = table[id]

\* C12: a row keeps its identifier and its creation timestamp for as long as
\* it is stored, whatever the operations; an update adds and removes no row,
\* may change only the name, date of birth or match fields of the row it
\* names, and leaves every other row of every table as it was.
C12_UpdateOnlyMutable ==
    [][/\ store' # store =>
            /\ CreatedAtKept(players, players')
            /\ CreatedAtKept(teams, teams')
            /\ CreatedAtKept(tournaments, tournaments')
            /\ CreatedAtKept(matches, matches')
       /\ UpdateAnswered("UpdatePlayer", players, players')
       /\ Answers("UpdatePlayer") /\ inflight' = inflight
            => UNCHANGED <<teams, tournaments, matches, team_players,
                           tournament_teams>>
       /\ UpdateAnswered("UpdateTeam", teams, teams')
       /\ Answers("UpdateTeam") /\ inflight' = inflight
            => UNCHANGED <<players, tournaments, matches, team_players,
                           tournament_teams>>
       /\ UpdateAnswered("UpdateTournament", tournaments, tournaments')
       /\ Answers("UpdateTournament") /\ inflight' = inflight
            => UNCHANGED <<players, teams, matches, team_players,
                           tournament_teams>>
       /\ \A req \in Requests :
            /\ req.op = "UpdateMatch"
            /\ inflight' # inflight
            /\ UpdateMatch_Team2(req) \/ UpdateMatch_Write(req)
            => /\ DOMAIN matches' = DOMAIN matches
               /\ OtherRows(matches, req.arg.id)' = OtherRows(matches, req.arg.id)
               /\ UNCHANGED <<players, teams, tournaments, team_players,
                              tournament_teams>>]_vars

\* a match was updated to other teams and its row has the creation timestamp
\* of its creation, not the zero time of the entity the handler built
C12_Witness ==
    /\ last.op = "UpdateMatch"
    /\ last.err = Nil
    /\ last.out.created_at = ZeroTime
    /\ matches[last.out.id].team1_id = last.out.team1_id
    /\ matches[last.out.id].team1_id > matches[last.out.id].team2_id
    /\ matches[last.out.id].created_at > ZeroTime

\* ---------------------------------------------------------------- C13
\* the handler of the resource is reached: enableCORS let the request pass
Handled(res) == request.resource = res /\ request.method # "OPTIONS"

\* the path has the sub-resource name as its second segment
SubShape(sub) == Len(request.segments) >= 2 /\ request.segments[2] = sub

\* the handler itself answered, with this status, and nothing else happened
RejectedWith(status) ==
    /\ last'.op = "ServeHTTP"
    /\ last'.status = status
    /\ UNCHANGED <<store, nextUUID, inflight>>

\* C13: on /teams and /tournaments, a path of three or more segments whose
\* second segment is the sub-resource name has its first and third segments
\* taken as the ids of parent and child: POST starts the attach of that pair,
\* DELETE the detach, any other method is answered 405; a path of exactly
\* two such segments with GET is answered by the list of the parent's
\* related entities.
C13_SubResourceRouting ==
    [][Serve =>
        /\ Handled("teams") /\ SubShape("players")
              => \A t \in uuidParse(request.segments[1]) :
                 /\ Len(request.segments) >= 3
                       => \A p \in uuidParse(request.segments[3]) :
                          CASE request.method = "POST" ->
                                   IF request.storage = "up"
                                   THEN AddPlayerToTeam_Team(t, p)
                                   ELSE last'.op = "AddPlayerToTeam"
                            [] request.method = "DELETE" ->
                                   IF request.storage = "up"
                                   THEN RemovePlayerFromTeam(t, p)
                                   ELSE last'.op = "RemovePlayerFromTeam"
                            [] OTHER -> RejectedWith(405)
                 /\ Len(request.segments) = 2 /\ request.method = "GET"
                       => IF request.storage = "up"
                          THEN GetTeamPlayers(t)
                          ELSE last'.op = "GetTeamPlayers"
        /\ Handled("tournaments") /\ SubShape("teams")
              => \A o \in uuidParse(request.segments[1]) :
                 /\ Len(request.segments) >= 3
                       => \A t \in uuidParse(request.segments[3]) :
                          CASE request.method = "POST" ->
                                   IF request.storage = "up"
                                   THEN AddTeamToTournament_Tournament(o, t)
                                   ELSE last'.op = "AddTeamToTournament"
                            [] request.method = "DELETE" ->
                                   IF request.storage = "up"
                                   THEN RemoveTeamFromTournament(o, t)
                                   ELSE last'.op = "RemoveTeamFromTournament"
                            [] OTHER -> RejectedWith(405)
                 /\ Len(request.segments) = 2 /\ request.method = "GET"
                       => IF request.storage = "up"
                          THEN GetTournamentTeams(o)
                          ELSE last'.op = "GetTournamentTeams"]_vars

\* POST /api/teams/1/players/2/x was served: player 2 is a member of team 1
C13_Witness ==
    /\ request.resource = "teams"
    /\ request.method = "POST"
    /\ request.segments = <<"1", "players", "2", "x">>
    /\ last.op = "AddPlayerToTeam"
    /\ last.status = 200
    /\ BagIn(<<1, 2>>, team_players)

\* ---------------------------------------------------------------- C14
\* the name the operations of a resource carry
Entity(res) ==
    CASE res = "players" -> "Player"
      [] res = "teams" -> "Team"
      [] res = "tournaments" -> "Tournament"
      [] res = "matches" -> "Match"

\* the name the list of a resource carries
Entities(res) == IF res = "matches" THEN "Matches" ELSE Entity(res) \o "s"

\* the step calls this operation: it answers it, or leaves it in progress
Dispatches(op) ==
    \/ last'.op = op
    \/ \E q \in BagToSet(inflight') : q.op = op

\* the body decodes, and its date and its team ids parse
BodyParses ==
    /\ request.body.json
    /\ request.resource = "players" => parseDateTime(request.body.date_birth) # {}
    /\ request.resource = "matches" =>
          /\ parseDateTime(request.body.date) # {}
          /\ uuidParse(request.body.team1_id) # {}
          /\ uuidParse(request.body.team2_id) # {}

\* the request is one of the standard CRUD branch: its path is not one of a
\* sub-resource
CrudShape ==
    /\ request.method # "OPTIONS"
    /\ ~ (/\ request.resource = "teams" /\ SubShape("players"))
    /\ ~ (/\ request.resource = "tournaments" /\ SubShape("teams"))

\* C14: on each of the four resources, with an empty remaining path GET
\* dispatches to list-all and POST to create; with a non-empty remaining path
\* that spells an id GET dispatches to get-one, PUT to update and DELETE to
\* delete; POST with a non-empty remaining path does not dispatch to create.
C14_CrudRouting ==
    [][Serve /\ CrudShape =>
        LET e == Entity(request.resource)
            empty == request.segments = <<"">>
            id == PathID(request.segments) # {}
        IN  CASE request.method = "GET" /\ empty ->
                     Dispatches("GetAll" \o Entities(request.resource))
              [] request.method = "POST" /\ empty /\ BodyParses ->
                     Dispatches("Create" \o e)
              [] request.method = "GET" /\ id ->
                     Dispatches("Get" \o e \o "ByID")
              [] request.method = "PUT" /\ id /\ BodyParses ->
                     Dispatches("Update" \o e)
              [] request.method = "DELETE" /\ id ->
                     Dispatches("Delete" \o e)
              [] request.method = "POST" /\ ~empty ->
                     ~Dispatches("Create" \o e)
              [] OTHER -> TRUE]_vars

\* ---------------------------------------------------------------- C15
\* the method is not one the routing rules define for the shape of the path
Unmatched ==
    IF \/ request.resource = "teams" /\ SubShape("players")
       \/ request.resource = "tournaments" /\ SubShape("teams")
    THEN IF Len(request.segments) >= 3
         THEN request.method \notin {"POST", "DELETE"}
         ELSE request.method # "GET"
    ELSE IF request.segments = <<"">>
         THEN request.method \notin {"GET", "POST"}
         ELSE request.method \notin {"GET", "PUT", "DELETE"}

\* C15: a request that reaches a resource handler with a method the routing
\* rules do not define for its path shape is answered 405 by the handler and
\* reaches no use case: the store is untouched and no operation is started.
C15_MethodNotAllowed ==
    [][Serve /\ request.method # "OPTIONS" /\ Unmatched
          => /\ RejectedWith(405)
             /\ last'.err = <<"Method not allowed">>]_vars

\* ---------------------------------------------------------------- C16
\* the request is on a route that takes an identifier or a body, and an
\* identifier of its path or body does not parse, its body does not decode
\* or its date does not parse
Malformed ==
    IF \/ request.resource = "teams" /\ SubShape("players")
       \/ request.resource = "tournaments" /\ SubShape("teams")
    THEN IF Len(request.segments) >= 3
         THEN /\ request.method \in {"POST", "DELETE"}
              /\ \/ uuidParse(request.segments[1]) = {}
                 \/ uuidParse(request.segments[3]) = {}
         ELSE /\ request.method = "GET"
              /\ uuidParse(request.segments[1]) = {}
    ELSE IF request.segments = <<"">>
         THEN request.method = "POST" /\ ~BodyParses
         ELSE \/ /\ request.method \in {"GET", "PUT", "DELETE"}
                 /\ PathID(request.segments) = {}
              \/ request.method = "PUT" /\ ~BodyParses

\* C16: a request with a path identifier that fails UUID parsing, a body
\* that does not decode, or a body whose date or team ids do not parse, is
\* answered 400 by the handler itself: no use case is called, the store is
\* not written, and it is not read, for the answer is the same when the
\* storage cannot be reached.
C16_MalformedRejected ==
    [][Serve /\ request.method # "OPTIONS" /\ Malformed
          => RejectedWith(400)]_vars

\* PUT /api/matches/1 with a team2_id that is no UUID was answered 400 while
\* the storage was down
C16_Witness ==
    /\ request.resource = "matches"
    /\ request.method = "PUT"
    /\ request.segments = <<"1">>
    /\ request.storage = "down"
    /\ request.body.json
    /\ request.body.team2_id = "zz"
    /\ last.status = 400
    /\ last.err = <<"Invalid team2_id UUID">>

\* ---------------------------------------------------------------- C17
\* the table of a resource
Table(res) ==
    CASE res = "players" -> players
      [] res = "teams" -> teams
      [] res = "tournaments" -> tournaments
      [] res = "matches" -> matches

\* the request was served to its answer, by a storage that answers
AnsweredUp ==
    /\ request # NoRequest
    /\ request.method # "OPTIONS"
    /\ request.storage = "up"
    /\ last.status # 0

\* C17: GET /{resource}/{id} with a well-formed id that names no stored
\* entity is answered 404, for each of the four resources; POST
\* /teams/{id}/players/{playerId} and POST /tournaments/{id}/teams/{teamId}
\* where the parent or the child is not stored are answered 400, and store
\* no membership.
C17_NotFoundStatus ==
    AnsweredUp =>
        /\ request.method = "GET"
              => \A id \in PathID(request.segments) :
                    id \notin DOMAIN Table(request.resource)
                        => /\ last.status = 404
                           /\ last.op = "Get" \o Entity(request.resource) \o "ByID"
                           /\ last.err # Nil
        /\ request.method = "POST" /\ Len(request.segments) >= 3
              => /\ request.resource = "teams" /\ request.segments[2] = "players"
                       => \A t \in uuidParse(request.segments[1]),
                             p \in uuidParse(request.segments[3]) :
                                t \notin DOMAIN teams \/ p \notin DOMAIN players
                                    => /\ last.status = 400
                                       /\ last.op = "AddPlayerToTeam"
                                       /\ ~BagIn(<<t, p>>, team_players)
                 /\ request.resource = "tournaments" /\ request.segments[2] = "teams"
                       => \A o \in uuidParse(request.segments[1]),
                             t \in uuidParse(request.segments[3]) :
                                o \notin DOMAIN tournaments \/ t \notin DOMAIN teams
                                    => /\ last.status = 400
                                       /\ last.op = "AddTeamToTournament"
                                       /\ ~BagIn(<<o, t>>, tournament_teams)

\* POST /api/teams/1/players/2 was answered 400: team 1 is stored, player 2
\* is not
C17_Witness ==
    /\ AnsweredUp
    /\ request.resource = "teams"
    /\ request.method = "POST"
    /\ request.segments = <<"1", "players", "2">>
    /\ 1 \in DOMAIN teams
    /\ 2 \notin DOMAIN players
    /\ last.status = 400
    /\ last.err[1] = "player not found"

\* ---------------------------------------------------------------- C18
\* C18: on every endpoint, a request whose repository call fails because the
\* storage cannot be reached is answered 500 with the message of that
\* failure.
C18_StorageFailure500 ==
    /\ request # NoRequest
    /\ request.storage = "down"
    /\ last.status # 0
    /\ last.op # "ServeHTTP"
    => /\ last.status = 500
       /\ last.err = StorageErr

\* ---------------------------------------------------------------- C19
\* the list names every id of ids once and no other
ExactlyOnce(l, ids) ==
    /\ Len(l) = Cardinality(ids)
    /\ \A id \in ids : \E i \in DOMAIN l : l[i].id = id
    /\ \A i \in DOMAIN l : l[i].id \in ids

\* no entity of the list comes after one created before it
NewestFirst(l) ==
    \A i, j \in DOMAIN l : i < j => l[i].created_at >= l[j].created_at

\* no match of the list comes after one of an earlier date
LatestDateFirst(l) ==
    \A i, j \in DOMAIN l : i < j => l[i].date >= l[j].date

\* the lists of players, teams and tournaments: every stored entity once,
\* newest first
ListsOfThree ==
    /\ PlayerRepoGetAll # {}
    /\ \A l \in PlayerRepoGetAll : ExactlyOnce(l, DOMAIN players) /\ NewestFirst(l)
    /\ ExactlyOnce(TeamRepoGetAll, DOMAIN teams) /\ NewestFirst(TeamRepoGetAll)
    /\ TournamentRepoGetAll # {}
    /\ \A l \in TournamentRepoGetAll :
          ExactlyOnce(l, DOMAIN tournaments) /\ NewestFirst(l)
    /\ MatchRepoGetAll # {}
    /\ \A l \in MatchRepoGetAll : ExactlyOnce(l, DOMAIN matches)

\* a GetAll handler answers 200 with a list its repository can return
ListAnswered ==
    /\ last.op = "GetAllPlayers" => last.status = 200 /\ last.out \in PlayerRepoGetAll
    /\ last.op = "GetAllTeams" => last.status = 200 /\ last.out = TeamRepoGetAll
    /\ last.op = "GetAllTournaments"
          => last.status = 200 /\ last.out \in TournamentRepoGetAll
    /\ last.op = "GetAllMatches" => last.status = 200 /\ last.out \in MatchRepoGetAll

\* C19 as stated: GetAll of players, of teams, of tournaments and of matches
\* returns every stored entity of the kind once, ordered by creation
\* timestamp, newest first.
C19_Original ==
    /\ ListsOfThree
    /\ ListAnswered
    /\ \A l \in MatchRepoGetAll : NewestFirst(l)

\* C19: GetAll of players, of teams and of tournaments returns every stored
\* entity of the kind once, ordered by creation timestamp, newest first;
\* GetAll of matches returns every stored match once, ordered by the date of
\* the match, latest first.
C19_ListOrder ==
    /\ ListsOfThree
    /\ ListAnswered
    /\ \A l \in MatchRepoGetAll : LatestDateFirst(l)

\* the list of matches was answered with two matches, the one created first,
\* on the later date, at its head
C19_Witness ==
    /\ last.op = "GetAllMatches"
    /\ Len(last.out) = 2
    /\ last.out[1].created_at < last.out[2].created_at
    /\ last.out[1].date > last.out[2].date

\* ---------------------------------------------------------------- C20
\* no entity of the list comes after one whose name is later in the alphabet
ByName(l) ==
    \A i, j \in DOMAIN l : i < j => NameRank(l[i].name) <= NameRank(l[j].name)

\* the entities of the list are rows of the table, as stored
RowsOf(l, table) ==
    \A i \in DOMAIN l :
        /\ l[i].id \in DOMAIN table
        /\ l[i].name = table[l[i].id].name
        /\ l[i].created_at = table[l[i].id].created_at

\* C20: GetTeamPlayers(T) returns the stored players that have a membership
\* row with team T, each once and no other, ordered alphabetically by player
\* name; GetTournamentTeams returns the stored teams that have a membership
\* row with the tournament, each once and no other, ordered by team name.
C20_RelatedLists ==
    /\ \A t \in UUIDs :
          /\ TeamRepoGetTeamPlayers(t) # {}
          /\ \A l \in TeamRepoGetTeamPlayers(t) :
                /\ ExactlyOnce(l, {p \in DOMAIN players :
                                      BagIn(<<t, p>>, team_players)})
                /\ RowsOf(l, players)
                /\ ByName(l)
    /\ \A o \in UUIDs :
          /\ TournamentRepoGetTournamentTeams(o) # {}
          /\ \A l \in TournamentRepoGetTournamentTeams(o) :
                /\ ExactlyOnce(l, {t \in DOMAIN teams :
                                      BagIn(<<o, t>>, tournament_teams)})
                /\ RowsOf(l, teams)
                /\ ByName(l)
    /\ last.op \in {"GetTeamPlayers", "GetTournamentTeams"}
          => last.status = 200 /\ ByName(last.out)

\* the players of a team were listed: the player named "a", created after the
\* player named "b", comes first
C20_Witness ==
    /\ last.op = "GetTeamPlayers"
    /\ Len(last.out) = 2
    /\ last.out[1].name = "a"
    /\ last.out[2].name = "b"
    /\ last.out[1].created_at > last.out[2].created_at

\* ---------------------------------------------------------------- C21
\* the exchanges of the session, the one just answered included
Exchanges ==
    IF request = NoRequest THEN <<>>
    ELSE IF last.status # 0 THEN Append(request.log, Exchange)
    ELSE request.log

\* the text of an id in a path or a body
IdString(id) == CHOOSE str \in {"1", "2"} : id \in uuidParse(str)

\* exchange e asked for this method on this path of this resource
Asked(e, res, method, segments) ==
    /\ e.resource = res
    /\ e.method = method
    /\ e.segments = segments

\* the first n exchanges of the session are the first n requests of the
\* sequence: POST /api/teams, POST /api/players, POST
\* /api/teams/A/players/P, GET /api/teams/A/players, POST /api/matches with
\* team1_id = team2_id = A, where A and P are the ids the first two
\* responses carry
Scripted(n) ==
    LET x == Exchanges IN
    /\ Len(x) >= n
    /\ n >= 1 => Asked(x[1], "teams", "POST", <<"">>) /\ x[1].body.json
    /\ n >= 2 => /\ Asked(x[2], "players", "POST", <<"">>)
                 /\ x[2].body.json
                 /\ parseDateTime(x[2].body.date_birth) # {}
    /\ n >= 3 => Asked(x[3], "teams", "POST",
                       <<IdString(x[1].out.id), "players", IdString(x[2].out.id)>>)
    /\ n >= 4 => Asked(x[4], "teams", "GET", <<IdString(x[1].out.id), "players">>)
    /\ n >= 5 => /\ Asked(x[5], "matches", "POST", <<"">>)
                 /\ x[5].body.json
                 /\ parseDateTime(x[5].body.date) # {}
                 /\ uuidParse(x[5].body.team1_id) = {x[1].out.id}
                 /\ uuidParse(x[5].body.team2_id) = {x[1].out.id}

\* C21: on an empty store, a session that sends POST /api/teams, POST
\* /api/players, POST /api/teams/A/players/P, GET /api/teams/A/players and
\* POST /api/matches with team1_id = team2_id = A reads 201 with team A, 201
\* with player P, 200, 200 with the list of exactly P, and 400 with the
\* self-match error, and no match is stored.
C21_EndToEnd ==
    LET x == Exchanges IN
    /\ Scripted(1) => /\ x[1].status = 201
                      /\ x[1].out.id \in DOMAIN teams
                      /\ x[1].out.name = x[1].body.name
    /\ Scripted(2) => /\ x[2].status = 201
                      /\ x[2].out.id \in DOMAIN players
                      /\ x[2].out.name = x[2].body.name
    /\ Scripted(3) => x[3].status = 200
    /\ Scripted(4) => /\ x[4].status = 200
                      /\ Len(x[4].out) = 1
                      /\ x[4].out[1].id = x[2].out.id
                      /\ x[4].out[1].name = x[2].body.name
    /\ Scripted(5) => /\ x[5].status = 400
                      /\ x[5].err = SelfMatchErr
                      /\ matches = <<>>

\* the five exchanges of the sequence were made, the last answered 400
C21_Witness ==
    /\ Scripted(5)
    /\ Exchanges[4].out[1].id = 2
    /\ Exchanges[5].status = 400
    /\ BagIn(<<1, 2>>, team_players)

\* ---------------------------------------------------------------- C22
\* the write statement of match request req runs in this step, on a row of
\* two different teams of which one is no longer stored, although both
\* lookups of req found their team
WriteAfterDelete(req) ==
    /\ req.op \in {"CreateMatch", "UpdateMatch"}
    /\ req.pc = "write"
    /\ Completes(req)
    /\ req.arg.team1_id # req.arg.team2_id
    /\ req.arg.team1_id \notin DOMAIN teams \/ req.arg.team2_id \notin DOMAIN teams

\* C22: the lookups and the write of CreateMatch and UpdateMatch are
\* separate steps, and a DeleteTeam can run between them.  The write that
\* follows it, on a row the storage still holds in the case of an update,
\* fails with the foreign-key violation of the storage, not with a "team
\* not found" of the use case, is answered 400 and stores nothing; no step
\* leaves a stored match that references a team that is not stored.
C22_WriteRace ==
    [][/\ \A req \in Requests :
            /\ WriteAfterDelete(req)
            /\ req.op = "UpdateMatch" => req.arg.id \in DOMAIN matches
            => /\ last'.op = req.op
               /\ last'.err = <<"foreign_key_violation">>
               /\ last'.status = 400
               /\ matches' = matches
       /\ \A m \in DOMAIN matches' :
            /\ matches'[m].team1_id \in DOMAIN teams'
            /\ matches'[m].team2_id \in DOMAIN teams']_vars

\* a CreateMatch found both its teams, one of them was deleted, and its
\* insert was rejected by the storage: no match is stored
C22_Witness ==
    /\ last.op = "CreateMatch"
    /\ last.err = <<"foreign_key_violation">>
    /\ last.status = 400
    /\ inflight = EmptyBag
    /\ DOMAIN teams # DOMAIN RaceTeams
    /\ matches = <<>>

\* ---------------------------------------------------------------- C23
\* C23: in every reachable state both goal counts of every stored match are
\* non-negative, whatever goal counts the create and update requests carry.
C23_GoalsNonNegative ==
    \A m \in DOMAIN matches :
        /\ matches[m].goal_scored_team1 >= 0
        /\ matches[m].goal_scored_team2 >= 0

\* ---------------------------------------------------------------- C24
\* C24: in every reachable state every stored player has a non-empty name,
\* whatever name the create and update requests carry.
C24_PlayerNameNonEmpty ==
    \A p \in DOMAIN players : players[p].name # ""

\* ---------------------------------------------------------------- C25
\* the match requests
MatchOps == {"CreateMatch", "UpdateMatch"}

\* the step answers 400 with err and ends there: nothing is written
FailsWith(err) ==
    /\ last'.err = err
    /\ last'.status = 400
    /\ store' = store

\* C25: CreateMatch and UpdateMatch check in the order team1 exists, team2
\* exists, team1 differs from team2, and answer the error of the first check
\* that fails without going on.  A request whose team1 is not stored ends in
\* its first step with the team1 error, also when team2 is missing too or
\* is the same team; a request moves to its second lookup only when the
\* first found team1, fails there with the team2 error when team2 is not
\* stored, and moves to the distinctness check only when the second lookup
\* found team2; the self-match error comes only from that third step.
C25_CheckOrder ==
    [][/\ \A mn \in MatchNumbers, d \in Dates, t1 \in UUIDs, t2 \in UUIDs,
             g1 \in Goals, g2 \in Goals :
            /\ CreateMatch_Team1(mn, d, t1, t2, g1, g2) /\ t1 \notin DOMAIN teams
                  => /\ last'.op = "CreateMatch"
                     /\ FailsWith(Team1NotFound)
                     /\ inflight' = inflight
            /\ \A id \in UUIDs :
                  UpdateMatch_Team1(id, mn, d, t1, t2, g1, g2) /\ t1 \notin DOMAIN teams
                      => /\ last'.op = "UpdateMatch"
                         /\ FailsWith(Team1NotFound)
                         /\ inflight' = inflight
       /\ \A req \in Requests :
            /\ req.op \in MatchOps /\ req.pc = "team2" /\ inflight' # inflight
               /\ req.arg.team2_id \notin DOMAIN teams
                  => /\ last'.op = req.op
                     /\ FailsWith(Team2NotFound)
                     /\ Completes(req)
            /\ req.op \in MatchOps /\ req.pc = "write" /\ inflight' # inflight
               /\ req.arg.team1_id = req.arg.team2_id
                  => /\ last'.op = req.op
                     /\ FailsWith(SelfMatchErr)
                     /\ Completes(req)
       /\ \A req \in BagToSet(inflight') \ Requests :
            req.op \in MatchOps =>
                IF req.pc = "team2"
                THEN /\ inflight = EmptyBag
                     /\ req.arg.team1_id \in DOMAIN teams
                     /\ store' = store
                ELSE /\ req.pc = "write"
                     /\ [req EXCEPT !.pc = "team2"] \in Requests
                     /\ req.arg.team2_id \in DOMAIN teams
                     /\ store' = store
       /\ last'.err = SelfMatchErr /\ inflight = EmptyBag => last' = last]_vars

\* a CreateMatch was answered with the team1 error while no team at all is
\* stored: its team2 is missing as well
C25_Witness ==
    /\ last.op = "CreateMatch"
    /\ last.err = Team1NotFound
    /\ teams = <<>>
    /\ nextUUID > 1
    /\ inflight = EmptyBag

\* ---------------------------------------------------------------- C26
\* the step takes every row of one pair out of a relation and leaves the
\* other rows as they were
RemovesPair(rel, relAfter, pair) ==
    /\ ~BagIn(pair, relAfter)
    /\ DOMAIN relAfter = DOMAIN rel \ {pair}
    /\ \A r \in DOMAIN relAfter : CopiesIn(r, relAfter) = CopiesIn(r, rel)

\* C26: RemovePlayerFromTeam and RemoveTeamFromTournament look nothing up and
\* do not ask how many rows the delete removed: for every pair of ids,
\* stored or not, member or not, the answer is 200 without an error; a
\* member pair loses exactly its membership row and every other row and
\* table is as before, and for a non-member pair the store is unchanged.
C26_DetachUnconditional ==
    [][/\ last'.op = "RemovePlayerFromTeam" /\ inflight' = inflight
            => \A t \in UUIDs, p \in UUIDs :
                 RemovePlayerFromTeam(t, p)
                     => /\ last'.status = 200
                        /\ last'.err = Nil
                        /\ RemovesPair(team_players, team_players', <<t, p>>)
                        /\ UNCHANGED <<players, teams, tournaments, matches,
                                       tournament_teams>>
                        /\ ~BagIn(<<t, p>>, team_players) => store' = store
       /\ last'.op = "RemoveTeamFromTournament" /\ inflight' = inflight
            => \A o \in UUIDs, t \in UUIDs :
                 RemoveTeamFromTournament(o, t)
                     => /\ last'.status = 200
                        /\ last'.err = Nil
                        /\ RemovesPair(tournament_teams, tournament_teams', <<o, t>>)
                        /\ UNCHANGED <<players, teams, tournaments, matches,
                                       team_players>>
                        /\ ~BagIn(<<o, t>>, tournament_teams) => store' = store]_vars

\* a detach was answered 200 while no player is stored, so that its pair
\* names a missing player and is no member, and the other relation holds a
\* row that the detach left alone
C26_Witness ==
    /\ last.op = "RemovePlayerFromTeam"
    /\ last.status = 200
    /\ last.err = Nil
    /\ players = <<>>
    /\ tournament_teams # EmptyBag

\* ---------------------------------------------------------------- C27
\* the answer of an insert the storage refused for a missing parent or child
ForeignKeyRefused(op) ==
    /\ last'.op = op
    /\ last'.err = <<"foreign_key_violation">>
    /\ last'.status = 400
    /\ store' = store

\* C27: in every reachable state every team_players row names a stored team
\* and a stored player, and every tournament_teams row a stored tournament
\* and a stored team, whatever deletes ran between the lookups and the
\* insert of an AddPlayerToTeam or AddTeamToTournament; an insert that comes
\* after such a delete is refused by the storage with a foreign-key
\* violation, is answered 400 and writes nothing.
C27_MembershipReferences ==
    /\ [](/\ \A r \in DOMAIN team_players :
                r[1] \in DOMAIN teams /\ r[2] \in DOMAIN players
          /\ \A r \in DOMAIN tournament_teams :
                r[1] \in DOMAIN tournaments /\ r[2] \in DOMAIN teams)
    /\ [][/\ \A req \in Requests :
               /\ AddPlayerToTeam_Write(req)
               /\ \/ req.arg.team_id \notin DOMAIN teams
                  \/ req.arg.player_id \notin DOMAIN players
               => ForeignKeyRefused("AddPlayerToTeam")
          /\ \A req \in Requests :
               /\ AddTeamToTournament_Write(req)
               /\ \/ req.arg.tournament_id \notin DOMAIN tournaments
                  \/ req.arg.team_id \notin DOMAIN teams
               => ForeignKeyRefused("AddTeamToTournament")]_vars

\* an AddPlayerToTeam passed both lookups, a delete removed its team or its
\* player, and its insert was refused, while another membership is stored
C27_Witness ==
    /\ last.op = "AddPlayerToTeam"
    /\ last.err = <<"foreign_key_violation">>
    /\ last.status = 400
    /\ inflight = EmptyBag
    /\ team_players # EmptyBag

\* ---------------------------------------------------------------- C28
\* the match plays the team
Plays(match, id) == match.team1_id = id \/ match.team2_id = id

\* C28: a successful DeleteTeam of a stored team takes with it every match
\* the team plays, as team1 or as team2: after the step no stored match
\* names the team, no match was added, and the matches of other teams are
\* stored as they were.
C28_DeleteTeamCascade ==
    [][Answers("DeleteTeam") /\ inflight' = inflight
          => \A id \in DOMAIN teams :
               DeleteTeam(id)
                   => /\ last'.err = Nil
                      /\ last'.status = 200
                      /\ id \notin DOMAIN teams'
                      /\ \A m \in DOMAIN matches' : ~Plays(matches'[m], id)
                      /\ DOMAIN matches' =
                            {m \in DOMAIN matches : ~Plays(matches[m], id)}
                      /\ \A m \in DOMAIN matches' : matches'[m] = matches[m]]_vars

\* a team was deleted, only two teams are left, and a match of those two is
\* still stored
C28_Witness ==
    /\ last.op = "DeleteTeam"
    /\ last.err = Nil
    /\ Cardinality(DOMAIN teams) = 2
    /\ \E m \in DOMAIN matches :
          {matches[m].team1_id, matches[m].team2_id} = DOMAIN teams

\* ---------------------------------------------------------------- C29
\* the step answers an update 200 with this entity, whose created_at is the
\* zero time, while the row a GET of the same id reads next carries the
\* time of its creation
AnswersBuilt(op, entity, row) ==
    /\ last'.op = op
    /\ last'.status = 200
    /\ last'.out = entity
    /\ entity.created_at = ZeroTime
    /\ row.id = entity.id
    /\ row.created_at # ZeroTime
    /\ row # last'.out

\* C29: a successful update of a player, team, tournament or match is
\* answered 200 with the entity the handler built from the request: the id
\* of the path, the fields of the body and a created_at of the zero time;
\* the stored row keeps the created_at of its creation, so that the answer
\* differs in created_at from the answer of a GET of the same id that
\* follows.
C29_UpdateAnswer ==
    [][/\ Answers("UpdatePlayer") /\ last'.err = Nil
            => \A id \in UUIDs, n \in Names, d \in Dates :
                 UpdatePlayer(id, n, d)
                     => /\ AnswersBuilt("UpdatePlayer",
                              [id |-> id, name |-> n, date_birth |-> d,
                               created_at |-> ZeroTime],
                              PlayerRepoGetByIDRow(id)')
                        /\ players'[id].created_at = players[id].created_at
       /\ Answers("UpdateTeam") /\ last'.err = Nil
            => \A id \in UUIDs, n \in Names :
                 UpdateTeam(id, n)
                     => /\ AnswersBuilt("UpdateTeam",
                              [id |-> id, name |-> n, created_at |-> ZeroTime],
                              TeamRepoGetByIDRow(id)')
                        /\ teams'[id].created_at = teams[id].created_at
       /\ Answers("UpdateTournament") /\ last'.err = Nil
            => \A id \in UUIDs, n \in Names :
                 UpdateTournament(id, n)
                     => /\ AnswersBuilt("UpdateTournament",
                              [id |-> id, name |-> n, created_at |-> ZeroTime],
                              TournamentRepoGetByIDRow(id)')
                        /\ tournaments'[id].created_at = tournaments[id].created_at
       /\ Answers("UpdateMatch") /\ last'.err = Nil
            => \A req \in Requests :
                 UpdateMatch_Write(req)
                     => /\ AnswersBuilt("UpdateMatch", req.arg,
                                        MatchRepoGetByIDRow(req.arg.id)')
                        /\ matches'[req.arg.id].created_at
                              = matches[req.arg.id].created_at]_vars

\* an update of a stored match was answered 200 with the zero created_at,
\* and the stored match carries the time of its creation
C29_Witness ==
    /\ last.op = "UpdateMatch"
    /\ last.status = 200
    /\ last.out.created_at = ZeroTime
    /\ last.out.id \in DOMAIN matches
    /\ matches[last.out.id].created_at > ZeroTime

\* ---------------------------------------------------------------- C30
\* the request is GET /{res}/{id}/{sub} with an id that parses
ListsRelation(res, sub) ==
    /\ request # NoRequest
    /\ request.resource = res
    /\ request.method = "GET"
    /\ Len(request.segments) = 2
    /\ request.segments[2] = sub
    /\ uuidParse(request.segments[1]) # {}

\* the answer is 200 with a list of no element
EmptyList(op) ==
    /\ last.op = op
    /\ last.status = 200
    /\ last.err = Nil
    /\ last.out = <<>>

\* C30: GET /teams/{id}/players and GET /tournaments/{id}/teams do not look
\* the parent up: with a well-formed id that names no stored team (no
\* stored tournament) the answer is 200 with an empty list, and serving such
\* a GET never changes the store, whether the parent is stored or not.
C30_ListWithoutParent ==
    /\ [](AnsweredUp =>
            /\ ListsRelation("teams", "players")
                  => \A t \in uuidParse(request.segments[1]) :
                        t \notin DOMAIN teams => EmptyList("GetTeamPlayers")
            /\ ListsRelation("tournaments", "teams")
                  => \A o \in uuidParse(request.segments[1]) :
                        o \notin DOMAIN tournaments
                            => EmptyList("GetTournamentTeams"))
    /\ [][/\ Serve
          /\ \/ ListsRelation("teams", "players")
             \/ ListsRelation("tournaments", "teams")
          => /\ store' = store
             /\ inflight' = inflight
             /\ last'.status # 0]_vars

\* GET /api/teams/1/players was answered 200 with an empty list: players and
\* a team are stored, but no team 1
C30_Witness ==
    /\ AnsweredUp
    /\ ListsRelation("teams", "players")
    /\ request.segments[1] = "1"
    /\ 1 \notin DOMAIN teams
    /\ teams # <<>>
    /\ players # <<>>
    /\ EmptyList("GetTeamPlayers")
====
